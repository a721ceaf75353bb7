------------------------------ MODULE HttpFront ------------------------------
(***************************************************************************)
(* One HTTP request on its way through rust/src/main.rs: the CORS layer    *)
(* around the auth layer around the routes, the checks of audio_url, and   *)
(* the answer on its way back.  Layers see requests for unknown paths and  *)
(* methods too.                                                            *)
(***************************************************************************)
EXTENDS Integers

Request ==
  [method: {"GET", "OPTIONS", "POST"},
   path:   {"audio-url", "health", "unknown"},
   origin: {"none", "", "a.com", "b.com"},
   key:    {"none", "right", "wrong"},
   input:  {"none", "unparsable", "id"},     \* of videoId=, or else of url=
   sse:    BOOLEAN]

\* SERVICE_API_KEY and S3_BUCKET set or empty; CORS_ORIGINS as split at commas.
Config ==
  [apiKey: BOOLEAN, bucket: BOOLEAN, origins: {{""}, {" a.com", "", " "}, {"a.com", "b.com "}}]

VARIABLES
  req, cfg,   \* the request and the environment
  at,         \* the layer it is in, going in or coming "back", or "sent"
  status,     \* of the answer, 0 while there is none
  cors        \* the headers the CORS layer gave the answer

vars == <<req, cfg, at, status, cors>>

Init ==
  /\ req \in Request /\ cfg \in Config
  /\ at = "cors" /\ status = 0 /\ cors = {}

\* str::trim
Trim(entry) ==
  CASE entry \in {" a.com", "a.com"} -> "a.com" [] entry \in {"b.com", "b.com "} -> "b.com"
    [] OTHER -> ""

\* Config::from_env: entries trimmed, empty ones dropped.
CorsOrigins(entries) == {Trim(e) : e \in entries} \ {""}

Allowed == req.origin \in CorsOrigins(cfg.origins)

OriginHeader == IF Allowed THEN {"allow-origin"} ELSE {}

\* The answer c leaves the inner layers.
Reply(c) == at' = "back" /\ status' = c /\ UNCHANGED <<req, cfg, cors>>

Pass(layer) == at' = layer /\ UNCHANGED <<req, cfg, status, cors>>

\* A preflight is answered here.
CorsIn ==
  /\ at = "cors"
  /\ \/ req.method # "OPTIONS" /\ Pass("auth")
     \/ /\ req.method = "OPTIONS"
        /\ at' = "sent" /\ status' = 204
        /\ cors' = OriginHeader \cup {"allow-methods"}
        /\ UNCHANGED <<req, cfg>>

\* Faulty variant of Auth: a request without a key is let through.
AuthLenient ==
  /\ at = "auth"
  /\ IF cfg.apiKey /\ req.key = "wrong" THEN Reply(401) ELSE Pass("route")

Auth ==
  /\ at = "auth"
  /\ IF cfg.apiKey /\ req.key # "right" THEN Reply(401) ELSE Pass("route")

Route ==
  /\ at = "route"
  /\ \/ req.path = "unknown" /\ Reply(404)
     \/ req.path # "unknown" /\ req.method # "GET" /\ Reply(405)
     \/ req.path = "health" /\ req.method = "GET" /\ Reply(200)
     \/ req.path = "audio-url" /\ req.method = "GET" /\ Pass("audio_url")

\* Faulty variant of AudioUrl: the stream starts before the input is checked.
AudioUrlStreaming ==
  /\ at = "audio_url"
  /\ \/ req.sse /\ Pass("resolve")
     \/ ~req.sse /\ req.input # "id" /\ Reply(400)
     \/ ~req.sse /\ req.input = "id" /\ ~cfg.bucket /\ Reply(500)
     \/ ~req.sse /\ req.input = "id" /\ cfg.bucket /\ Pass("resolve")

AudioUrl ==
  /\ at = "audio_url"
  /\ \/ req.input # "id" /\ Reply(400)
     \/ req.input = "id" /\ ~cfg.bucket /\ Reply(500)
     \/ req.input = "id" /\ cfg.bucket /\ Pass("resolve")

\* A stream is 200 before resolve() has begun; without one its status is sent.
Resolve ==
  /\ at = "resolve"
  /\ \/ req.sse /\ Reply(200)
     \/ ~req.sse /\ \E c \in {200, 413, 415, 500, 502} : Reply(c)

\* Faulty variant of CorsOut: an error goes back as it came.
CorsOutBare ==
  /\ at = "back"
  /\ cors' = IF status = 200 THEN OriginHeader ELSE {}
  /\ at' = "sent"
  /\ UNCHANGED <<req, cfg, status>>

CorsOut ==
  /\ at = "back"
  /\ cors' = OriginHeader
  /\ at' = "sent"
  /\ UNCHANGED <<req, cfg, status>>

Next == CorsIn \/ Auth \/ Route \/ AudioUrl \/ Resolve \/ CorsOut

Spec == Init /\ [][Next]_vars

-----------------------------------------------------------------------------
\* A browser page of a listed origin, blanks around it or not, can read every
\* answer: errors of the inner layers, and a preflight, which carries no key
\* (main.rs:46).  No other page can, and a list that is empty or has an empty
\* entry lists nothing (config.rs:16).
CorsOnEveryAnswer ==
  at = "sent" =>
    /\ "allow-origin" \in cors <=>
         req.origin \notin {"none", ""} /\ \E e \in cfg.origins : Trim(e) = req.origin
    /\ req.method = "OPTIONS" => status = 204

\* resolve() starts only for a key that is right or not asked for, on an id that
\* was parsed and a bucket that is set, in JSON and in SSE mode alike.
NoWorkUnchecked ==
  at = "resolve" => /\ cfg.apiKey => req.key = "right"
                    /\ req.input = "id" /\ cfg.bucket
=============================================================================
