----------------------------- MODULE RelayStream -----------------------------
(***************************************************************************)
(* The proxy relays a model call (ServeHTTP, relay and stream in           *)
(* internal/proxy/relay.go) while main shuts the server down               *)
(* (cmd/spanbox/main.go).  stream reads the upstream's body in a goroutine *)
(* per read, so that an idle timer can give up on it; the handler and its  *)
(* reader share one buffer.  What the upstream sends is numbered units, a  *)
(* read takes some of them, and capture keeps the first Limit.             *)
(*                                                                         *)
(* What a capture does is in ProxyCapture: here it runs, and stores its    *)
(* exchange if the database is still open.                                 *)
(***************************************************************************)
EXTENDS Integers, Sequences, FiniteSets, FiniteSetsExt, SequencesExt, TLC

CONSTANTS
    Requests,  \* names of requests to the proxy
    Units,     \* bound: how much each request's upstream sends in its response
    ReadSize,  \* length of stream's buffer
    Limit,     \* maxBodyBytes
    Slots      \* captures that may run at a time

ASSUME UnitsAreCounts == Units \in [Requests -> Nat]

ASSUME SizesArePositive == {ReadSize, Limit, Slots} \subseteq Nat \ {0}

VARIABLES
    relay,     \* each request's handler: where it is, and its streamResult
    reader,    \* its reading goroutine, with the readResult it will hand over
    upstream,  \* the upstream's response: units sent, end, connection closed
    client,    \* what the client has received, and whether it is still there
    capture,   \* what became of each exchange
    server,    \* where main is
    cut        \* history: the requests in flight when Shutdown timed out

vars == <<relay, reader, upstream, client, capture, server, cut>>

\* Statuses, each for its kind: what the upstream answers is handed on alike.
Refused    == 400
Upstream   == 200
BadGateway == 502

Error == 0  \* the body of an answer that the proxy itself writes

NoRead == [at |-> "none", data |-> <<>>, last |-> FALSE]

Init ==
    /\ relay = [r \in Requests |-> [at |-> "new", inference |-> FALSE, status |-> 0,
                                    body |-> <<>>, headersSent |-> FALSE]]
    /\ reader = [r \in Requests |-> NoRead]
    /\ upstream = [r \in Requests |-> [sent |-> 0, ended |-> FALSE, closed |-> FALSE]]
    /\ client = [r \in Requests |-> [status |-> 0, body |-> <<>>, mood |-> "reads"]]
    /\ capture = [r \in Requests |-> "none"]
    /\ server = "up"
    /\ cut = {}

Running == {r \in Requests : capture[r] = "running"}

InFlight == {r \in Requests : relay[r].at \notin {"new", "end"}}

\* The units from the i-th to the j-th.
UnitsFrom(i, j) == [k \in 1 .. j - i + 1 |-> i + k - 1]

\* The proxy's own answer; nobody is told when the client has gone.
Answered(r, status) ==
    IF client[r].mood = "gone" THEN client[r]
    ELSE [client[r] EXCEPT !.status = status, !.body = <<Error>>]

------------------------------------------------------------------------------
(* The request *)

\* An unknown route, or a body that is too large or cannot be read.
Refuse(r) ==
    /\ server = "up"
    /\ relay[r].at = "new"
    /\ client' = [client EXCEPT ![r] = Answered(r, Refused)]
    /\ relay' = [relay EXCEPT ![r].at = "end"]
    /\ UNCHANGED <<reader, upstream, capture, server, cut>>

Accept(r) ==
    /\ server = "up"
    /\ relay[r].at = "new"
    /\ \E inference \in BOOLEAN :
          relay' = [relay EXCEPT ![r].at = "dial", ![r].inference = inference]
    /\ UNCHANGED <<reader, upstream, client, capture, server, cut>>

\* The upstream cannot be reached, or does not answer in time.
DialFails(r) ==
    /\ relay[r].at = "dial"
    /\ relay' = [relay EXCEPT ![r].at = "capture", ![r].status = BadGateway,
                              ![r].body = <<Error>>]
    /\ client' = [client EXCEPT ![r] = Answered(r, BadGateway)]
    /\ UNCHANGED <<reader, upstream, capture, server, cut>>

\* stream starts, with its first reader.
Dial(r) ==
    /\ relay[r].at = "dial"
    /\ relay' = [relay EXCEPT ![r].at = "select", ![r].status = Upstream]
    /\ reader' = [reader EXCEPT ![r].at = "reading"]
    /\ UNCHANGED <<upstream, client, capture, server, cut>>

------------------------------------------------------------------------------
(* stream *)

\* The upstream sends some units, its end (io.EOF or an error), or both.
Read(r) ==
    /\ reader[r].at = "reading"
    /\ \E n \in 0 .. Min({ReadSize, Units[r] - upstream[r].sent}), last \in BOOLEAN :
          /\ n = 0 => last
          /\ reader' = [reader EXCEPT ![r] =
                [at   |-> "ready", last |-> last,
                 data |-> UnitsFrom(upstream[r].sent + 1, upstream[r].sent + n)]]
          /\ upstream' = [upstream EXCEPT ![r].sent = @ + n, ![r].ended = last]
    /\ UNCHANGED <<relay, client, capture, server, cut>>

\* The body was closed, or the client's context canceled, under the read.
ReadAborted(r) ==
    /\ reader[r].at = "reading"
    /\ upstream[r].closed \/ client[r].mood = "gone"
    /\ reader' = [reader EXCEPT ![r] = [at |-> "ready", last |-> TRUE, data |-> <<>>]]
    /\ UNCHANGED <<relay, upstream, client, capture, server, cut>>

\* Mutant of Kept: the whole read as long as there is room.
KeptWhole(r, data) ==
    IF relay[r].inference /\ Len(relay[r].body) < Limit
    THEN relay[r].body \o data
    ELSE relay[r].body

\* What stream keeps of a read for the capture.
Kept(r, data) ==
    IF relay[r].inference
    THEN relay[r].body \o SubSeq(data, 1, Min({Len(data), Limit - Len(relay[r].body)}))
    ELSE <<>>

\* Mutant of AfterRead: the error is looked at first.
AfterReadError(read) == IF read.last THEN "capture" ELSE "write"

\* Where stream goes after a read.
AfterRead(read) == IF read.data # <<>> THEN "write" ELSE "capture"

\* The select takes the read: headers before the first one, then the capture.
Take(r) ==
    /\ relay[r].at = "select"
    /\ reader[r].at = "ready"
    /\ relay' = [relay EXCEPT ![r].at          = AfterRead(reader[r]),
                              ![r].body        = Kept(r, reader[r].data),
                              ![r].headersSent = TRUE]
    /\ client' = [client EXCEPT ![r].status =
                     IF relay[r].headersSent \/ client[r].mood = "gone" THEN @ ELSE relay[r].status]
    /\ reader' = [reader EXCEPT ![r] = IF AfterRead(@) = "write" THEN [@ EXCEPT !.at = "none"]
                                       ELSE NoRead]
    /\ UNCHANGED <<upstream, capture, server, cut>>

\* The write and the flush; then the end of stream, or the next reader.  Units
\* written to a client that has gone reach nobody.
Write(r) ==
    /\ relay[r].at = "write"
    /\ client[r].mood # "stalls"
    /\ client' = [client EXCEPT ![r].body = IF client[r].mood = "gone" THEN @ ELSE @ \o reader[r].data]
    /\ IF reader[r].last
       THEN /\ relay'  = [relay EXCEPT ![r].at = "capture"]
            /\ reader' = [reader EXCEPT ![r] = NoRead]
       ELSE /\ relay'  = [relay EXCEPT ![r].at = "select"]
            /\ reader' = [reader EXCEPT ![r] = [NoRead EXCEPT !.at = "reading"]]
    /\ UNCHANGED <<upstream, capture, server, cut>>

WriteFails(r) ==
    /\ relay[r].at = "write"
    /\ client[r].mood = "gone"
    /\ relay' = [relay EXCEPT ![r].at = "capture"]
    /\ reader' = [reader EXCEPT ![r] = NoRead]
    /\ UNCHANGED <<upstream, client, capture, server, cut>>

\* Mutant of Idle: the timer guards the first read only.
IdleFirst(r) ==
    /\ relay[r].at = "select"
    /\ ~relay[r].headersSent
    /\ relay' = [relay EXCEPT ![r].at = "drain"]
    /\ upstream' = [upstream EXCEPT ![r].closed = TRUE]
    /\ UNCHANGED <<reader, client, capture, server, cut>>

\* The idle timer fires, perhaps with a read ready: the body is closed.
Idle(r) ==
    /\ relay[r].at = "select"
    /\ relay' = [relay EXCEPT ![r].at = "drain"]
    /\ upstream' = [upstream EXCEPT ![r].closed = TRUE]
    /\ UNCHANGED <<reader, client, capture, server, cut>>

\* Whether the reader has handed over its last read.
Joined(r) == reader[r].at = "ready"

\* Mutant of GiveUp: the span keeps the status the upstream had sent.
GiveUpSilently(r) ==
    /\ relay[r].at = "drain"
    /\ Joined(r)
    /\ reader' = [reader EXCEPT ![r] = NoRead]
    /\ relay' = [relay EXCEPT ![r].at = "capture"]
    /\ client' = [client EXCEPT ![r] = IF relay[r].headersSent THEN @ ELSE Answered(r, BadGateway)]
    /\ UNCHANGED <<upstream, capture, server, cut>>

\* The last read is thrown away, and a client that has no answer yet gets one.
GiveUp(r) ==
    /\ relay[r].at = "drain"
    /\ Joined(r)
    /\ reader' = [reader EXCEPT ![r] = IF @.at = "ready" THEN NoRead ELSE @]
    /\ IF relay[r].headersSent
       THEN /\ relay' = [relay EXCEPT ![r].at = "capture"]
            /\ UNCHANGED client
       ELSE /\ relay' = [relay EXCEPT ![r].at = "capture", ![r].status = BadGateway,
                                      ![r].body = <<Error>>]
            /\ client' = [client EXCEPT ![r] = Answered(r, BadGateway)]
    /\ UNCHANGED <<upstream, capture, server, cut>>

------------------------------------------------------------------------------
(* captureAsync *)

\* The goroutine is counted before the handler returns; without a slot only the
\* origins of the calls are recorded, by the handler itself.
CaptureAsync(r) ==
    /\ relay[r].at = "capture"
    /\ relay' = [relay EXCEPT ![r].at = "end"]
    /\ capture' = [capture EXCEPT ![r] =
          CASE ~relay[r].inference -> "none"
            [] relay[r].inference /\ Cardinality(Running) < Slots -> "running"
            [] OTHER -> "dropped"]
    /\ UNCHANGED <<reader, upstream, client, server, cut>>

\* The database is open until main returns.
Captured(r) ==
    /\ capture[r] = "running"
    /\ capture' = [capture EXCEPT ![r] = IF server = "closed" THEN "lost" ELSE "stored"]
    /\ UNCHANGED <<relay, reader, upstream, client, server, cut>>

\* The client goes while its handler still reads or writes.
ClientLeaves(r) ==
    /\ relay[r].at \in {"dial", "select", "write", "drain"}
    /\ client[r].mood # "gone"
    /\ client' = [client EXCEPT ![r].mood = "gone"]
    /\ UNCHANGED <<relay, reader, upstream, capture, server, cut>>

\* A client that stays but reads no more: a write blocks, as its deadline is off.
ClientStalls(r) ==
    /\ relay[r].at = "write"
    /\ client[r].mood = "reads"
    /\ client' = [client EXCEPT ![r].mood = "stalls"]
    /\ UNCHANGED <<relay, reader, upstream, capture, server, cut>>

------------------------------------------------------------------------------
(* main *)

Signal ==
    /\ server = "up"
    /\ server' = "draining"
    /\ UNCHANGED <<relay, reader, upstream, client, capture, cut>>

\* Shutdown returns when no request is in flight, or after ten seconds.
ShutdownReturns ==
    /\ server = "draining"
    /\ server' = "waiting"
    /\ cut' = InFlight
    /\ UNCHANGED <<relay, reader, upstream, client, capture>>

\* Mutant of WaitReturns: main does not wait.
WaitReturnsAtOnce ==
    /\ server = "waiting"
    /\ server' = "returning"
    /\ UNCHANGED <<relay, reader, upstream, client, capture, cut>>

\* Handler.Wait.
WaitReturns ==
    /\ server = "waiting"
    /\ Running = {}
    /\ server' = "returning"
    /\ UNCHANGED <<relay, reader, upstream, client, capture, cut>>

\* The deferred database.Close, and the end of the process.
CloseDatabase ==
    /\ server = "returning"
    /\ server' = "closed"
    /\ UNCHANGED <<relay, reader, upstream, client, capture, cut>>

Exit ==
    /\ server = "closed"
    /\ server' = "exited"
    /\ UNCHANGED <<relay, reader, upstream, client, capture, cut>>

Stop == WaitReturns \/ CloseDatabase \/ Exit

------------------------------------------------------------------------------
\* The handler, its reader and its capture, as far as they move by themselves.
Proceed(r) ==
    /\ server # "exited"
    /\ \/ DialFails(r) \/ Dial(r)
       \/ ReadAborted(r)
       \/ Take(r) \/ Write(r) \/ WriteFails(r)
       \/ Idle(r) \/ GiveUp(r)
       \/ CaptureAsync(r)
       \/ Captured(r)

\* What clients and upstreams do.
Environment(r) ==
    /\ server # "exited"
    /\ Refuse(r) \/ Accept(r) \/ Read(r) \/ ClientLeaves(r) \/ ClientStalls(r)

Next ==
    \/ \E r \in Requests : Proceed(r) \/ Environment(r)
    \/ Signal \/ ShutdownReturns \/ Stop

Spec == Init /\ [][Next]_vars

\* The runtime schedules the goroutines; timers fire; dialing, with the
\* transport's timeouts, and captures end.  Upstreams may stay silent, clients
\* may stop to read.
Fairness ==
    /\ \A r \in Requests : WF_vars(Proceed(r))
    /\ WF_vars(ShutdownReturns)
    /\ WF_vars(Stop)

FairSpec == Spec /\ Fairness

------------------------------------------------------------------------------
(* Properties *)

IsBody(s) == s = <<Error>> \/ s = UnitsFrom(1, Len(s))

\* Types, the limits on what is captured and on the captures that run, and
\* what the stages of a handler say about its reader: stream leaves no goroutine
\* behind, whichever way it ends.
TypeOK ==
    /\ \A r \in Requests :
          /\ relay[r].at \in {"new", "dial", "select", "write", "drain", "capture", "end"}
          /\ relay[r].status \in {0, Upstream, BadGateway}
          /\ IsBody(relay[r].body) /\ Len(relay[r].body) <= Limit
          /\ reader[r].at \in {"none", "reading", "ready"}
          /\ Len(reader[r].data) <= ReadSize
          /\ relay[r].at \in {"select", "drain"} <=> reader[r].at # "none"
          /\ upstream[r].sent \in 0 .. Units[r]
          /\ client[r].status \in {0, Refused, Upstream, BadGateway}
          /\ IsBody(client[r].body)
          /\ capture[r] \in {"none", "running", "dropped", "stored", "lost"}
    /\ Cardinality(Running) <= Slots
    /\ server \in {"up", "draining", "waiting", "returning", "closed", "exited"}
    /\ cut \subseteq Requests

\* A client that stays until its upstream's response ends without an idle
\* timeout has received all of it, the units that came with the end included.
RelaysAll ==
    \A r \in Requests :
        /\ relay[r].at \in {"capture", "end"}
        /\ upstream[r].ended /\ ~upstream[r].closed /\ client[r].mood # "gone"
        => client[r].body = UnitsFrom(1, upstream[r].sent)

\* The exchange that is captured is the one the client saw: the same status,
\* and at least the units it received, as far as the limit goes, in order.
CapturedAsRelayed ==
    \A r \in Requests :
        relay[r].at \in {"capture", "end"} /\ relay[r].inference =>
            /\ client[r].status \in {0, relay[r].status}
            /\ client[r].status = 0 => client[r].mood = "gone"
            /\ IsPrefix(SubSeq(client[r].body, 1, Min({Limit, Len(client[r].body)})),
                        relay[r].body)

\* When main has closed the database, every capture that was started is stored,
\* but for those of requests that Shutdown no longer waited for.
CapturesOutliveShutdown ==
    server \in {"closed", "exited"} =>
        \A r \in Requests : capture[r] \in {"running", "lost"} => r \in cut

\* However silent its upstream, a request is answered or given up, unless its
\* client stays and does not read: relay lifts the write deadline.  Once the signal
\* has come the process ends, whoever is still connected.
RelaysAndShutdownEnd ==
    /\ \A r \in Requests :
          relay[r].at = "dial" ~> \/ relay[r].at = "end"
                                  \/ client[r].mood = "stalls"
                                  \/ server = "exited"
    /\ server = "draining" ~> server = "exited"

==============================================================================
