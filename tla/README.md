# proxyseerr in TLA+

proxyseerr stands between Seerr and two instances (English and anime) of Sonarr or of Radarr and
makes them look like one server. This directory models how it does so: how IDs of the two instances
share one space, how a request picks its instance and has its IDs and tags rewritten, how two
replies become one, the 60-second cache that all handler threads share, the process with its thread
pools, time-outs and health check, and the environment variables that configure it. TLC checks the
models on small instances; TLAPS proves what is said below for all of them.

`PROJECT.json` lists the components, the runs, the source lines each definition stands for, the
hazards and the findings. Line numbers below are those of `src/proxyseerr/`; `README.md:n` with a
line number is the repository's own README.

## The system

| Part | State | Operations | Models |
| --- | --- | --- | --- |
| Merged ID space (`namespace.py`) | none; `ANIME_ID_OFFSET` | encode, decode | `Namespace`, `NamespaceProofs` |
| Router cache (`routing.py:26-66`, `157-166`) | `_cache`: four lists with a time stamp | `_cached`, `invalidate`, pop of one entry | `RouterCache`, `StaleRegister`, `RouterCacheProofs` |
| Add and update routing (`routing.py:69-192`, `app.py:245-299`, `service.py:68-173`) | the handler's locals | `choose_for_add`, `translate_tags`, `forward`, `create_tag` | `AddRequest`, `OneLibrary`, `AddRequestProofs` |
| Requests by ID, commands, catch-all, queue details (`app.py:46-105`, `277-299`, `342-453`) | the handler's locals | route by the IDs in path, query or body; broadcast | `IdRouting`, `OneServer`, `IdRoutingProofs` |
| Merged reads (`service.py:176-338`) | the handler's locals | library, lookups, dropdown lists, queue | `MergedRead`, `MergedReadProofs` |
| Entry point (`__main__.py`) | one server with 16 threads per pair | probe, serve | `Serving`, `Deadlines`, their proofs, `Configuration` |
| Health (`service.py:341-365`, `healthcheck.py`, `Dockerfile:20-21`) | Docker's count of failures | two reads in turn; container health check | `Serving`, `Deadlines`, their proofs |
| Upstream client (`upstream.py`) | an HTTP session without cookies | `request` with two time-outs, `json`, `fetch` | `Serving`; its outcomes in the other models |
| Configuration (`config.py`) | the environment variables | `load_settings`, at every start | `Configuration`, `ConfigurationProofs` |
| Request gate (`app.py:46-55`, `121-188`) | none | API key, body limit, path filter | its outcomes in `IdRouting` |
| Media kinds (`kinds.py`) | read-only tables | | one field of each role; the default ports |

Seerr calls the proxy over HTTP; a waitress thread runs the handler from start to end; the handler
calls the instances one at a time, blocking. Handlers of one service share nothing but
`Router._cache`, which has no lock, and the port's 16 threads. The instances are shared with their
own web UIs. The proxy persists nothing, so a restart empties the cache and abandons the handlers
that were running; Seerr keeps the IDs it was given.

What is hard here, and where it bites, is in `hazards`. In short:

* a load that began before the cache was dropped is stored after it; loads overlap;
* two lists, or two instances, are read one after the other and compared as if at one moment;
* "could not be read" must stay apart from "has none", in the cache, in routing and in merges;
* a call is executed but its reply is lost; an instance fails, or the proxy restarts, between two
  calls of one handler;
* the IDs of two instances mix in one body, and the offset has an exact boundary;
* an instance that is silent holds threads, which hold up the requests behind them, among which is
  the health check, which has a shorter time-out of its own;
* what Seerr stored depends on variables that are read anew at each start.

What makes each part correct: the ID space is invertible; the cache is at most the TTL behind and
never remembers a failure; an add goes where its folder or IDs say and with IDs of that instance;
a request by ID acts on what it names and nothing else; a merge has everything that was there
throughout, nothing that was not, under IDs that lead back, or it is an error; every request ends,
and one service's outage is not the other's; a configuration is complete or refused, and what Seerr
stored stays true.

## The modules

**`Namespace`** has the arithmetic. Values that are not integers (null, strings, booleans) are the
members of `NonIds`; they pass through `encode_id` unchanged and decode as English, as in
`namespace.py:21` and `:30`.

**`RouterCache`** abstracts the content of a list to a version number. `_cached` reads the clock,
looks up, loads, stores; each is an action (`Call`, `Hit`/`Miss`, `Answer`/`LoadFails`, `Store`),
because the threads run in between. A thread that creates a tag (`Create`) then drops one entry
(`pop`, `routing.py:184`) or all (`invalidate`, `app.py:334`). The environment ticks the clock,
changes lists past the proxy, takes instances down and up, and restarts the proxy. History
variables (`ended`, `back`, `published`, `publishedAt`, `racing`) only record; no guard reads them.

**`StaleRegister`** is what the callers of `_cached` may rely on: a list that others change, read
as it was less than the TTL before the call, or found unreadable by the call itself. It has no cache
and no reader knows of another. `RouterCache` implements it (`ImplementsStaleRegister`): `calls` is
what each thread's caller sees, all steps between are stutters.

**`AddRequest`** has one record per handler thread. `Choose` is `choose_for_add` up to the first
read; `AnimePaths` and `EnglishPaths` are its two reads; `next_tag`, `tag_label`,
`tag_id_for_label`, `post_label`, `label_rejected` and `pop` are the loop of `translate_tags`;
`add_executed`, `update_executed`, `rejected` and `unreachable` are the outcomes of `forward`.
Root folders are opaque normalised paths, a tag is an ID and a label, and of a body the model
keeps the IDs, the path, the series type and the tags; among the tags booleans, which Python takes
for the integers 1 and 0, are left out (`routing.py:142`). Cache entries have no age here: a lookup
may find the entry, expired or not, or load it anew, or fail (`Returns`); how old an entry can be is
what `RouterCache` establishes. `Received` lets Seerr send only tags that were in some GET /tag.
A request that ends in `"lost"` was executed although Seerr is told 502. `reason` and `fault`
record which rule of `choose_for_add` fired and what failed on the way, list by list and label by
label.

**`OneLibrary`** is the promise of README.md:36-39 and README.md:54-57 for adds and updates: one
library with one list of tags. An add makes one title, with a new ID; an update touches the title it
names; tags are made and sent for labels that were asked for; what fails has touched no title.
`AddRequest` implements it (`ImplementsOneLibrary`) through the titles and tags of both instances
under their exposed IDs. A tag in it is never forgotten, because an instance does not use an ID
twice. Choosing, the reads and the loop over the tags are stutters, except that a label made on the
way is a `MakeTag`, and one whose reply was lost a `MakeTag` that ends the request. The mapping says
nothing of which instance a title goes to: that is what the properties of `routing` are about.

**`IdRouting`** is every other request that is routed by its IDs. A request is its IDs, by where
they stand and which code looks there: the last path segment, the query parameters, the body values
`target_from_payload` sees, those only `forward` decodes, and those nothing decodes. `Consulted` and
`Target` are the routing, `Decoded` and `Undecoded` what the route hands to `forward` to decode and
what goes on as it came: queue details and the catch-all decode the query, the other routes do not,
and a body is decoded in the route's own fields. A broadcast asks one instance after the other, and
keeps whatever status comes back. Queue details without an ID are a merged read and belong to
`MergedRead`. The handlers share nothing in the proxy, so one request at a time stands for all;
titles come and go and jobs end in between. `calls`, `started` and `touched` record.

**`OneServer`** is the promise of README.md:36-39: one server with one ID space, where a request
touches exactly what it names, or fails. `IdRouting` implements it (`ImplementsOneServer`) for
requests that the one server could have been asked (`Unambiguous`): each ID was handed out, all by
the instance that the routing finds, and an anime ID stands where this route decodes it. A command
that names nothing becomes up to two jobs.

**`MergedRead`** follows one handler through the two reads while titles come and go. A listed
object is its ID, one other ID field (`ref`: a profile of a title, the title of a queue record) and
its external ID. A reply is a failure (no connection, 404, 500), a list, an object, or JSON of
neither form. `_fetch_both` is `Fetched`; each merge is the operator with its name in the source.
Both library kinds have the same control, so the model does not tell Sonarr and Radarr apart.

**`Serving`** is the process over time. It probes the instances one after the other and only then
listens; each service has its own queue and threads (`Take`); a request holds its thread while its
upstream calls run in turn, each through connect and read under its own time-out (`Budget`).
`healthcheck.py` asks port after port (`CheckAsks`, `CheckAnswered`) and gives up
on one (`CheckTimesOut`), which leaves its request in the queue or the thread; Docker counts
(`streak`). An instance may be silent or answer, refuse or fail at once. A tick passes only when
nothing is due, as real time does for steps that take microseconds.

**`Deadlines`** adds to `Serving` the place of a request in its queue and four kinds of clocks,
which no guard reads. With them it states in ticks what `Serving` leaves at "some day": how long a
request waits for a thread, how long a start and a run of the health check take, and for how long an
outage that is over can still hold up a request or fail a check. The last is told service by service
(`quiet`): an outage of one is none of the other's.

**`Configuration`** is `load_settings` with the container around it: the operator edits variables
(`Edit`), `main` serves or exits (`Start`), Docker starts it again, Seerr stores IDs and a port
(`Use`). `IntEnv` is `_int_env`, `Accepted` is the absence of a `ConfigError`. Texts are a few
words, numbers are blank, junk or integers.

The MC modules give the constants their values for TLC. The operators marked "Mutant" are plausible
mistakes (a failure that is cached, an owner concluded from one list, an ID that is not decoded, a
time-out for one phase only); putting one in place of the real operator must break the property
named with it in `PROJECT.json`, and it does.

## The runs

| Run | Shows | Bounds |
| --- | --- | --- |
| `router_cache` | an answer is less than the TTL behind; a failure is nobody else's answer; only a reply in transit hides a new tag, and for less than the TTL; the cache implements a register that is less than the TTL stale | 2 threads, 1 list, TTL 2, clock 0..3, 2 changes |
| `routing` | ownership is concluded only from two lists that were read; a title goes where its folder is, or, with a list unread, where the weaker rules say; an ID in a body arrives where it came from, as what it was there, with three exceptions; an update hits the title it names | 2 requests, 6 bodies, 2 paths, 4 layouts, 1 UI change |
| `tags` | forwarded tag IDs are the target's, for labels that were asked for; a tag that is older than the cache is lost only if its own list was unread or its own label refused; the two instances are one library | 2 requests, 4 bodies, 2 labels, 3 tags per instance, 1 UI change |
| `id_routing` | a request makes the calls it should, once; two instances are one server | 2 IDs per instance, one request for each way an ID can be given and decoded, 1 job per instance |
| `merged_read` | completeness, nothing made up, the right copy in a lookup, honest errors | every pair of libraries over 2 IDs, 2 external IDs; 2 changes |
| `serving` | how long a request holds a thread; what a failed check implies; only an outage of its own service holds a request up or fails a check, and soon after it none does; bounds on waits, starts and checks | 2 services, 1 thread each, 1 request and 1 check at a time, 2 calls, connect 1 and read 2 ticks |
| `serving_live` | every request ends, a started process listens, checks recover | 1 service, 1 thread, 2 requests and 2 checks at a time |
| `configuration` | whatever is edited, what is served is usable and complete, and stored IDs and ports stay true | every variable, 2 to 6 values each, 2 edits |

The bounds cover the cases that matter. Two threads suffice for every race on the cache: the
properties relate one reader to one creator, and more threads only repeat the roles (the theorems
have no bound). A clock that runs past the TTL with the TTL at 2 tells "exactly as old as the TTL"
from its neighbours. In `routing` the layouts are the usual one, the keyword pointing the wrong
way, a dummy anime folder on the English instance, and an anime instance without folders; there is
one body for each rule. In `tags` the instances have the same label under different IDs and one
label that only one side has, so that both the lookup and the create happen, also twice at once;
a body carries a tag of the other instance, alone or beside one of the target's own or a null.
In `id_routing` the instances have the same native IDs, so a wrong target or a missing shift always
hits something. In `merged_read` the highest English ID is the last one below the offset. In
`serving` a tick stands for 5 seconds: a connect time-out and the check's are one tick, a read
time-out is longer than a connect; one thread makes the pool full with one request, and 2 requests
and 2 abandoned checks queue behind each other. In `configuration` two edits suffice to fix one
mistake and make another, and the ports include the other service's default and one too high.
Symmetry is declared for threads and requests only, which every property treats alike; no run with
symmetry checks liveness.

Only `serving_live` needs fairness, and it is weak fairness throughout: a thread takes a queued
request when it is free (waitress), an instance that is not silent replies at once, a time-out of
`requests` fires when it has come, Docker runs the next check, and time passes. No fairness is
assumed of Seerr, of crashes, or of an instance falling silent or coming back. `EveryRequestEnds`
therefore holds with instances that are silent for ever; `Listens` and `Recovers` are conditional
on the process staying up and, for `Recovers`, on the instances replying again. All other properties
are safety properties, the three refinements included. Deadlock checking is off nowhere.

### Where the code and its documentation differ

Four runs end in a violation on purpose: the property is what a comment, a docstring or a test
says, and TLC shows the code doing otherwise.

* `router_cache_claim`: the order "create, then drop the cache" (`app.py:331-333`) does not make a
  new tag visible at once: `_cached` stores a list it had begun to read before.
* `mixed_claim`: a command for titles of both instances runs, all IDs decoded, on the anime
  instance, and so on a title it does not name (`namespace.py:6-8`).
* `lookup_claim`: with the instance that holds a title unread, a lookup offers the title as not
  added (`service.py:259`), and a 200 that is not a list passes for an empty library
  (`service.py:186`), against README.md:323-324. `NothingMadeUp` says the rest: what is listed as in
  no library is in none that was seen;
* `silent_claim`: a silent instance outlasts the health check's 5 seconds and fails it, which
  `healthcheck.py:4-6` says it must not.

Differences of the same kind that no run is spent on; the passing properties are stated so that
they hold beside them:

* a tag younger than the cached list, or one whose list could not be read, is dropped from an add
  (`routing.py:149`, `:162`), against README.md:57 and README.md:323; `OldTagsKept` says when not;
* an English profile ID in an add that the folder sends to the anime instance goes along unchanged
  (`service.py:164`), a `rootFolderId` is never decoded (`service.py:164`), and an update goes where
  its own ID leads whatever its other IDs are (`app.py:263-268`): these are the three exceptions in
  `IdsKeepTheirMeaning`;
* a query ID on the routes for one title, a command or a job goes on as it came (`service.py:84-85`);
* IDs in a body that is a list, or in the middle of a path, do not decide the instance
  (`app.py:91`, `:434`), and IDs of nested objects are not shifted in replies (`service.py:150`):
  `Unambiguous` leaves all these requests out;
* a broadcast is answered with the English instance's error although the anime instance took the
  command (`app.py:406`): a failure in `OneServer` does not say that nothing was done;
* a broadcast that an instance answers with an HTTP error is not logged (`app.py:394`), against
  `app.py:366-367`;
* nothing checks that native IDs stay below the offset, and an offset of 1 is accepted
  (`config.py:10-13`, `:224`); the other models assume it;
* a health check of two slow ports can take up to the 10 seconds that Docker allows it: the bound of
  `CheckIsBounded` is equal to that and leaves nothing for starting the interpreter
  (`Dockerfile:20`);
* the image sets `SONARR_PROXY_PORT`, so the legacy `PROXY_PORT` never takes effect in a container
  (`config.py:160-163`, `Dockerfile:5`), against README.md:218.

## The proofs

`NamespaceProofs` proves, for every offset of at least 1 and with no induction: decoding undoes
encoding for every ID an instance hands out (`RoundTrip`), no two objects share an exposed ID
(`NoTwoShareAnId`), and an ID sent by Seerr, decoded and exposed again, is the same
(`DecodedIsExposed`). The assumption that English IDs stay below the offset is part of
`HandedOut`; the code does not check it, `config.py:10-13` argues for it.

`RouterCacheProofs` proves the five invariants of `router_cache` and its refinement for any number
of threads, any keys, any TTL and any bounds on clock and versions. Its assumptions are those
`RouterCache` names: the TTL is a positive natural number and tags are among the lists. The safety
properties are not inductive: what a thread returns depends on the entry, the entry on the reply
that was stored, and the reply on when its call began. `IInv` therefore adds that every entry and
every reply in transit was the list at its time stamp or later (`EntryHonest`, `ReplyHonest`), that
all recorded times are past (`PastTimes`), that versions older than a published one ended before it
was published (`PublishedHonest`), and that a reply older than a published version is one of those
counted in `racing` (`OldReplyRaces`). `SupersedeKeeps` and `PublishKeeps` say what the two steps
that move versions leave alone, `ChangeKeeps` the same of every change to a list; `TypeStep` and
`StepIInv` go through the actions. `VisibleWithinTtl` follows from `WithinTtl` and `PublishedHonest`
in every state. `CacheIsStaleRegister` maps each step under the same invariant: `Hit` and `Store`
are a `Return`, and `EntryHonest` and `ReplyHonest` are what its condition on the version asks for;
`LoadFails` is a `Fail`.

`IdRoutingProofs` proves the types of `IdRouting` and, if all requests are unambiguous, that it
implements `OneServer` (`TwoAreOne`), for any offset, any native IDs below it, any requests and any
bound on jobs. The invariant is small: jobs on one instance have different IDs, a reply recorded in
a broadcast names a job that was started, and a broadcast is under way only for a request without
IDs. The weight is in the mapping: exposed IDs are one-to-one (`NoTwoShareAnId`), so what the target
finds under the IDs it is sent is exactly what the request names among all titles of both instances,
and so for jobs and for what a reply says. IDs that the route does not decode arrive as they are,
which is right for English ones. `NothingIsRetried` holds for all requests, ambiguous or not; where
the handler is tells whom it has asked (`Calls`).

`AddRequestProofs` proves the seven safety properties of `routing` and `tags`, and the refinement of
`OneLibrary`, for any number of handlers, any bodies, folders and labels. It assumes that the IDs of
an instance stay below the offset, as `NamespaceProofs` does, that there is a label, and that the
tags an instance starts with have different IDs. None of the seven is inductive. What `_cached`
returns says something only of the moment it was read, so every list in the cache, in a reply or in
a handler's locals is held against the histories: if it was read it has all that was there from the
start, and nothing that never was (`Genuine`). `Picked` says what the choice of an instance rests
on. `Tagged` follows the loop over the tags: each resolved ID has a label that a tag of the request
has, and each tag is still to come, not an ID, carried by its label, or lost for a reason of its own
(`Excused`). `Points` says of a body on the anime instance that something in it pointed there, which
is what `IdsKeepTheirMeaning` rests on.
`Told` ties an ID that Seerr was given to the title it was given for. Lists of other handlers'
making only grow or lose what the histories forget, which keeps all of this (`ThreadGrows`); so a
step has to be proved for its own handler only (`StepOf`).

For the refinement (`TwoAreOneLibrary`) the invariant also says how far each handler is from its one
effect (`Settled`): until it is done, no title is its own and Seerr has no answer from it; a PUT
with an ID has one that Seerr was given, and carries it unchanged. Most steps then leave what the
library sees of the handler as it was, or end it without effect (`GoesOn`, `ElsewhereGoes`); what
the others do is one `Does` (`DoesInOne`). That a new title has a new exposed ID, and a named one is
the title touched, is `NoTwoShareAnId` once more; that forwarded tags fit the labels asked for is
`Tagged`.

`MergedReadProofs` proves the five properties of `merged_read` for any libraries, replies and
changes, as long as the native IDs lie between 0 and the offset. A list says something only of the
moment it was read, so the invariant says of each reply what it implies for what the instance has
held throughout the read and at some time of it (`Honest`); a title that comes or goes afterwards
makes the first set smaller or the second larger, which keeps it (`StaysHonest`). The answer is
the merge of the two replies (`Fetched`), and what is left is about the merges alone, each for any
two honest replies. That lookups show a title once rests on `Distinct`: an instance has no ID and
no external ID twice.

`ServingProofs` proves the safety properties of `serving` for any services, numbers of threads,
requests and checks, and any time-outs; the assumptions are that all of these are positive, the
connect time-out is not above the read time-out, a request may make the two calls of `health()`
and finitely many are open at a time. `HoldTime` is not inductive, because it forgets how a request
has used its time: `FineServed` bounds it by the calls that are over and the phase of the present
one (`Spent`). For `FailureHasCause`,
`Untroubled` says that with no instance silent no call has lasted for a tick; `NothingLasts` shows
that then no tick finds a call open, so that no check can wait for its time-out.

`DeadlinesProofs` proves the five properties of `Deadlines` under the same assumptions. That
`Deadlines` is `Serving` with clocks carries `ServingProofs` over. A request's wait is paid for by
those before it (`Waits`): on every tick that a request waits all threads of its port are busy, and
a thread is busy with one request for at most `MaxHold`; requests leave the queue in order, so that
the first `Threads` places are served within one `MaxHold`, the next within two, and so on. A start
or a check that has come to its n-th instance or port has used at most n of its time-outs
(`Starting`, `Checked`). For `HeldUpByOwnOutage` and `FailureIsRecent`, `Calm` says that a call that
has lasted began before its service was quiet: when that is a read time-out ago, such calls are
over, the others take no time, no request of the service is open when a tick passes (`HeldUp`), and
no check waits for its port (`Addressed`).

`ConfigurationProofs` proves the four properties of `configuration` for any choices of values, any
initial environments and any number of edits, as long as an environment gives each of the seven
numeric variables a blank, junk or an integer. The invariant: while the container serves, its
settings are `load_settings` of its present environment, which was accepted; what Seerr stored is
what the environment of that time stood for (`MeaningIn`, `PortIn`).

All safety properties that a passing run checks are proved, the three refinements included. Out of
the provers' reach and only model-checked: liveness under fairness (all of `serving_live`). What
`EveryRequestEnds`, `Listens` and `Recovers` rest on, the bounds in ticks, is proved in
`ServingProofs` and `DeadlinesProofs`; that ticks and steps happen at all is the fairness.

## Not modelled

Names, titles, labels' wording, the display prefix, headers, logging, redaction and error texts: no
property is about them. Which keys and paths the request gate refuses is a test without state; the
models have its outcome. Redirects and cookies are switched off in `upstream.py`. Paging fields of
the queue, its form when one instance is down, and the objects nested in records are left out of
`MergedRead`. `requests` applies the read time-out to each receive, so an instance that trickles its
reply can hold a thread for longer than `HoldTime` says; the code has no bound on that. `Serving`
leaves out that Docker gives up on a check after 10 seconds: with two ports `CheckIsBounded` says
that a run is over by then, if only just. The Unraid template, the icon generator and the CI files
are packaging.

## Plan

1. `RouterCache` with its proofs; `AddRequest` and `MergedRead`. *Done.*
2. `IdRouting` implementing `OneServer`, `RouterCache` implementing `StaleRegister`, with proofs.
   *Done.*
3. `Serving` with fairness and liveness; `Configuration`. *Done.*
4. Proofs of the properties of `MergedRead` for any libraries, of `Configuration` for any
   environment, of `Serving` for any times and numbers of threads. *Done.*
5. Proofs of the properties of `AddRequest` for any handlers, bodies and lists. *Done.*
6. `AddRequest` implementing `OneLibrary`, and the bounds of `Deadlines`, with proofs. *Done.*
7. The form of a merged queue when one instance is down.
