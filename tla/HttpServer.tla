------------------------------- MODULE HttpServer -------------------------------
(***************************************************************************)
(* One request to the HTTP server behind the Envoy demo: /health runs       *)
(* through a chain of decorators around echo, /post reads the body.  The    *)
(* first write, or the return, puts the status and the headers of that      *)
(* moment on the wire; what is set later is not sent.  Header values are    *)
(* told apart by who set them.                                              *)
(***************************************************************************)
EXTENDS Naturals, Sequences, SequencesExt

CONSTANTS
  Others,            \* the header names no line of http_server.go sets
  MaxValues          \* how many values a request has of one name

Names == {"Server", "Version", "Set-Cookie"} \cup Others

ASSUME ConstantsOK == MaxValues \in Nat

\* What main gives to handler for /health.
Decorators == <<"WithServerHeader", "WithAuthCookie">>
NoHeader == [n \in Names |-> <<>>]

VARIABLES
  route,             \* the path asked for
  request,           \* how many values the request has of each name
  chain,             \* the functions left to call, the outermost first
  header,            \* w.Header(): the values of each name
  wire,              \* the header on the wire
  status,            \* the status on the wire, 0 before
  body,              \* what was written
  broken             \* the body broke off while it was read

vars == <<route, request, chain, header, wire, status, body, broken>>

\* Mutant: the decorators are applied in the order they are listed.
handlerForwards(h, ds) == FoldLeft(LAMBDA inner, d : <<d>> \o inner, <<h>>, ds)

\* Each decorator wraps what the ones after it in the list have made.
handler(h, ds) ==
  FoldLeft(LAMBDA inner, d : <<d>> \o inner, <<h>>, Reverse(ds))

Init ==
  /\ request \in [Names -> 0..MaxValues]
  /\ \/ route = "/health" /\ chain = handler("echo", Decorators)
     \/ route = "/post" /\ chain = <<"postHandler">>
  /\ header = NoHeader /\ wire = NoHeader
  /\ status = 0 /\ body = "none"
  /\ broken = FALSE

Theirs(n) == [i \in 1..request[n] |-> "theirs"]

Calls(f) == chain # <<>> /\ Head(chain) = f /\ chain' = Tail(chain)

\* A write sends the header first, with status 200, if nothing has.
SendHeader ==
  /\ status' = IF status = 0 THEN 200 ELSE status
  /\ wire' = IF status = 0 THEN header' ELSE wire

\* Mutant: the version is set before the request's headers are copied.
WithServerHeaderVersionFirst ==
  /\ Calls("WithServerHeader")
  /\ header' = [n \in Names |->
       (IF n \in {"Server", "Version"} THEN <<"ours">> ELSE header[n])
         \o Theirs(n)]
  /\ SendHeader
  /\ UNCHANGED <<route, request, body, broken>>

\* Server is set, the request's headers are added, VERSION is set, and the
\* status is written before the decorated handler runs.
WithServerHeader ==
  /\ Calls("WithServerHeader")
  /\ LET added == [n \in Names |->
           (IF n = "Server" THEN <<"ours">> ELSE header[n])
             \o Theirs(n)]
     IN header' = [added EXCEPT !["Version"] = <<"ours">>]
  /\ SendHeader
  /\ UNCHANGED <<route, request, body, broken>>

WithAuthCookie ==
  /\ Calls("WithAuthCookie")
  /\ header' = [header EXCEPT !["Set-Cookie"] = Append(@, "ours")]
  /\ UNCHANGED <<route, request, wire, status, body, broken>>

echo ==
  /\ Calls("echo")
  /\ UNCHANGED <<route, request, header, broken>>
  /\ SendHeader
  /\ body' = "hello"

\* Mutant: the error of ReadAll is not looked at.
postHandlerUnchecked ==
  /\ Calls("postHandler")
  /\ broken' \in BOOLEAN
  /\ UNCHANGED <<route, request, header>>
  /\ SendHeader
  /\ body' = "Success"

\* ReadAll reads the whole body or fails; after an error nothing is written,
\* and the return sends an empty 200.
postHandler ==
  /\ Calls("postHandler")
  /\ broken' \in BOOLEAN
  /\ UNCHANGED <<route, request, header>>
  /\ SendHeader
  /\ body' = IF broken' THEN "empty" ELSE "Success"

Answered == chain = <<>> /\ UNCHANGED vars

Next ==
  \/ WithServerHeader \/ WithAuthCookie \/ echo
  \/ postHandler \/ Answered

Spec == Init /\ [][Next]_vars

-----------------------------------------------------------------------------
\* Types; what is left to call is the end of the list given to handler, then
\* echo; and Success is said of a body only if all of it was read.
TypeOK ==
  /\ route \in {"/health", "/post"}
  /\ request \in [Names -> 0..MaxValues]
  /\ chain \in Suffixes(IF route = "/health" THEN Append(Decorators, "echo")
                                              ELSE <<"postHandler">>)
  /\ \A h \in {header, wire} : h \in [Names -> Seq({"ours", "theirs"})]
  /\ status \in {0, 200} /\ (status = 0 => wire = NoHeader /\ body = "none")
  /\ body \in {"none", "hello", "empty", "Success"}
  /\ broken \in BOOLEAN /\ (body = "Success" => ~broken)

\* What the request says about Version never reaches the response, about Server
\* only after the server's own, and every other header of it comes back whole.
\* The cookie of WithAuthCookie is none of them: in the order main lists the
\* decorators (http_server.go:81), WithServerHeader has sent the header when
\* WithAuthCookie adds to it.
ResponseHeaders ==
  route = "/health" =>
    /\ chain = <<>> => "ours" \in ToSet(header["Set-Cookie"])
    /\ status # 0 =>
         \A n \in Names :
           wire[n] = CASE n = "Version" -> <<"ours">>
                       [] n = "Server"  -> <<"ours">> \o Theirs(n)
                       [] OTHER         -> Theirs(n)
=============================================================================
