--------------------------- MODULE MCConfiguration ---------------------------
(* Configuration for TLC: every variable, with a few values of each kind. *)
EXTENDS Configuration, TLC

UrlVariables == {Urls[k][i] : k \in Kinds, i \in 1 .. 2}
ApiKeyVariables == {ApiKeys[k][i] : k \in Kinds, i \in 1 .. 2}
PortNames == {"PROXY_PORT", "SONARR_PROXY_PORT", "RADARR_PROXY_PORT"}

Texts == [v \in UrlVariables |-> {"blank", "a", "b", "not_http"}]
      @@ [v \in ApiKeyVariables |-> {"blank", "key"}]
      @@ ("PROXY_API_KEY" :> {"blank", "short", "long"})
      @@ ("PROXY_ALLOW_ANONYMOUS" :> {"false", "true"})
      @@ ("REQUEST_LOG" :> {"errors", "unknown"})
Numbers == [v \in PortNames |-> {Blank, Junk, Number(0), Number(5001), Number(9000), Number(70000)}]
        @@ [v \in {"UPSTREAM_TIMEOUT", "UPSTREAM_CONNECT_TIMEOUT"} |->
              {Blank, Junk, Number(0), Number(3), Number(45)}]
        @@ ("ANIME_ID_OFFSET" :> {Blank, Junk, Number(-5), Number(2000)})
        @@ ("MAX_BODY_BYTES" :> {Blank, Number(512), Number(2048)})
AllChoices == Texts @@ Numbers

Url(v) == IF v \in {Urls[k][1] : k \in Kinds} THEN "a" ELSE "b"

\* Both pairs or one, started by hand or from the image, whose ENV has the ports.
Env(kinds, image) ==
  [v \in DOMAIN AllChoices |->
     CASE v \in UrlVariables -> IF \E k \in kinds : v \in Pair(k) THEN Url(v) ELSE "blank"
       [] v \in ApiKeyVariables -> IF \E k \in kinds : v \in Pair(k) THEN "key" ELSE "blank"
       [] v = "PROXY_API_KEY" -> "long"
       [] v = "PROXY_ALLOW_ANONYMOUS" -> "false"
       [] v = "REQUEST_LOG" -> "errors"
       [] v = "SONARR_PROXY_PORT" /\ image -> Number(5000)
       [] v = "RADARR_PROXY_PORT" /\ image -> Number(5001)
       [] OTHER -> Blank]

ByHandOrImage == {Env(ks, image) : ks \in {{"sonarr"}, Kinds}, image \in BOOLEAN}
==============================================================================
