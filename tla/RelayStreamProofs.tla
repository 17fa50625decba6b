-------------------------- MODULE RelayStreamProofs --------------------------
(***************************************************************************)
(* For any requests, responses, sizes and slots: stream leaves no reader   *)
(* behind, a client that stays gets all of its response, what is captured  *)
(* is what was relayed, and no capture of a request that Shutdown waited   *)
(* for is lost.  The invariant counts the units at each stage: what the    *)
(* upstream sent, less what the reader holds, is what the client has, and  *)
(* up to Limit what is kept for the capture.                               *)
(***************************************************************************)
EXTENDS RelayStream, FiniteSetTheorems, SequenceTheorems, TLAPS

------------------------------------------------------------------------------
(* The invariant *)

RelayState ==
    [at : {"new", "dial", "select", "write", "drain", "capture", "end"},
     inference : BOOLEAN, status : {0, Upstream, BadGateway},
     body : Seq(Nat), headersSent : BOOLEAN]

ReaderState == [at : {"none", "reading", "ready"}, data : Seq(Nat), last : BOOLEAN]

UpstreamState == [sent : Nat, ended : BOOLEAN, closed : BOOLEAN]

ClientState ==
    [status : {0, Refused, Upstream, BadGateway}, body : Seq(Nat),
     mood : {"reads", "stalls", "gone"}]

Shape ==
    /\ relay \in [Requests -> RelayState]
    /\ reader \in [Requests -> ReaderState]
    /\ upstream \in [Requests -> UpstreamState]
    /\ client \in [Requests -> ClientState]
    /\ capture \in [Requests -> {"none", "running", "dropped", "stored", "lost"}]
    /\ server \in {"up", "draining", "waiting", "returning", "closed", "exited"}

\* The units 1, 2, ...
InOrder(s) == \A i \in 1 .. Len(s) : s[i] = i

\* n units as far as the limit goes.
Limited(n) == IF n <= Limit THEN n ELSE Limit

\* The stages of stream.
Streaming(r) == relay[r].at \in {"select", "write", "drain"}

\* The units of earlier reads, and those kept for the capture.
Passed(r) == upstream[r].sent - Len(reader[r].data)

Taken(r) == IF relay[r].at = "write" THEN upstream[r].sent ELSE Passed(r)

\* The goroutine that reads, and the read that it or Write holds.
ReaderOK(r) ==
    /\ relay[r].at \in {"select", "drain"} <=> reader[r].at # "none"
    /\ reader[r].at = "reading" => reader[r].data = <<>> /\ ~ reader[r].last
    /\ ~ Streaming(r) => reader[r] = NoRead
    /\ Len(reader[r].data) <= ReadSize
    /\ Len(reader[r].data) <= upstream[r].sent /\ upstream[r].sent <= Units[r]
    /\ \A i \in 1 .. Len(reader[r].data) : reader[r].data[i] = Passed(r) + i

\* The connection to the upstream.
UpstreamOK(r) ==
    /\ relay[r].at \in {"new", "dial"} => upstream[r].sent = 0 /\ ~ upstream[r].ended
    /\ relay[r].at \in {"new", "dial", "select", "write"} => ~ upstream[r].closed
    /\ relay[r].at = "drain" => upstream[r].closed
    /\ upstream[r].ended /\ relay[r].at \in {"select", "write"} => reader[r].last

\* Before stream.
Waits(r) ==
    relay[r].at \in {"new", "dial"} =>
        /\ ~ relay[r].headersSent /\ relay[r].body = <<>>
        /\ client[r].status = 0 /\ client[r].body = <<>>
        /\ relay[r].at = "new" => ~ relay[r].inference

\* During stream.
Streams(r) ==
    Streaming(r) =>
        /\ relay[r].status = Upstream
        /\ InOrder(client[r].body) /\ InOrder(relay[r].body)
        /\ Len(client[r].body) <= Passed(r)
        /\ client[r].mood # "gone" => Len(client[r].body) = Passed(r)
        /\ Len(relay[r].body) = IF relay[r].inference THEN Limited(Taken(r)) ELSE 0
        /\ IF relay[r].headersSent
           THEN /\ client[r].status \in {0, Upstream}
                /\ client[r].status = 0 => client[r].mood = "gone"
           ELSE /\ relay[r].at # "write"
                /\ client[r].status = 0 /\ client[r].body = <<>>

\* After the handler: it refused the request, answered itself, or streamed.
RefusedIt(r) ==
    /\ ~ relay[r].inference /\ relay[r].body = <<>>
    /\ client[r].body \in {<<>>, <<Error>>} /\ ~ upstream[r].ended

AnsweredIt(r) ==
    /\ relay[r].status = BadGateway /\ relay[r].body = <<Error>>
    /\ \/ client[r].status = BadGateway /\ client[r].body = <<Error>>
       \/ client[r].status = 0 /\ client[r].body = <<>> /\ client[r].mood = "gone"
    /\ ~ upstream[r].ended \/ upstream[r].closed

StreamedIt(r) ==
    /\ relay[r].status = Upstream
    /\ InOrder(client[r].body) /\ InOrder(relay[r].body)
    /\ Len(relay[r].body) <= Limit
    /\ relay[r].inference => \/ Len(client[r].body) <= Len(relay[r].body)
                             \/ Len(relay[r].body) = Limit
    /\ client[r].status \in {0, Upstream}
    /\ client[r].status = 0 => client[r].mood = "gone"
    /\ ~ upstream[r].closed /\ client[r].mood # "gone" =>
          Len(client[r].body) = upstream[r].sent

Ended(r) ==
    relay[r].at \in {"capture", "end"} => RefusedIt(r) \/ AnsweredIt(r) \/ StreamedIt(r)

RequestOK(r) == ReaderOK(r) /\ UpstreamOK(r) /\ Waits(r) /\ Streams(r) /\ Ended(r)

Requested == \A r \in Requests : RequestOK(r)

\* Once Shutdown has returned only the requests it cut off are in flight, and once
\* main has waited only they can still have captures.
Captures ==
    /\ IsFiniteSet(Running) /\ Cardinality(Running) <= Slots
    /\ cut \subseteq Requests
    /\ server \in {"up", "draining"} => cut = {}
    /\ server \in {"waiting", "returning", "closed", "exited"} => InFlight \subseteq cut
    /\ server \in {"returning", "closed", "exited"} => Running \subseteq cut
    /\ \A r \in Requests : capture[r] = "lost" => r \in cut

IInv == Shape /\ Requested /\ Captures

------------------------------------------------------------------------------
(* Units *)

\* The smaller of two sizes.
LEMMA MinOfTwo ==
    ASSUME NEW a \in Int, NEW b \in Int
    PROVE  Min({a, b}) = IF a <= b THEN a ELSE b
<1>. DEFINE S == {a, b}
<1>1. \E x \in S : \A y \in S : x <= y
  OBVIOUS
<1>2. Min(S) \in S /\ \A y \in S : Min(S) <= y
  BY <1>1, Zenon DEF Min
<1>3. PICK x : x = Min(S)
  OBVIOUS
<1>. QED
  BY <1>2, <1>3

\* A run of units is a sequence of them.
LEMMA UnitsFromFacts ==
    ASSUME NEW i \in Nat, NEW n \in Nat
    PROVE  /\ UnitsFrom(i + 1, i + n) \in Seq(Nat)
           /\ Len(UnitsFrom(i + 1, i + n)) = n
           /\ \A k \in 1 .. n : UnitsFrom(i + 1, i + n)[k] = i + k
<1>. DEFINE s == [k \in 1 .. n |-> i + k]
<1>1. (i + n) - (i + 1) + 1 = n /\ \A k \in 1 .. n : (i + 1) + k - 1 = i + k
  OBVIOUS
<1>2. UnitsFrom(i + 1, i + n) = s
  BY <1>1 DEF UnitsFrom
<1>3. s \in [1 .. n -> Nat]
  OBVIOUS
<1>4. s \in Seq(Nat) /\ Len(s) = n
  BY <1>3
<1>. QED
  BY <1>2, <1>4

\* Units in order are the first ones.
LEMMA InOrderIsPrefix ==
    ASSUME NEW s \in Seq(Nat), InOrder(s)
    PROVE  s = UnitsFrom(1, Len(s))
<1>1. Len(s) \in Nat /\ DOMAIN s = 1 .. Len(s) /\ s \in [1 .. Len(s) -> Nat]
  BY LenProperties
<1>2. s = [i \in 1 .. Len(s) |-> s[i]]
  BY <1>1
<1>3. UnitsFrom(1, Len(s)) = [i \in 1 .. Len(s) |-> i]
  <2>1. Len(s) - 1 + 1 = Len(s) /\ \A k \in 1 .. Len(s) : 1 + k - 1 = k
    BY <1>1
  <2>. QED
    BY <2>1 DEF UnitsFrom
<1>. QED
  BY <1>2, <1>3 DEF InOrder

\* Units behind those before them.
LEMMA UnitsBehind ==
    ASSUME NEW s \in Seq(Nat), NEW t \in Seq(Nat), InOrder(s),
           \A i \in 1 .. Len(t) : t[i] = Len(s) + i
    PROVE  /\ s \o t \in Seq(Nat) /\ Len(s \o t) = Len(s) + Len(t)
           /\ InOrder(s \o t)
<1>1. Len(s) \in Nat /\ Len(t) \in Nat
  BY LenProperties
<1>2. /\ s \o t \in Seq(Nat) /\ Len(s \o t) = Len(s) + Len(t)
      /\ \A i \in 1 .. Len(s) + Len(t) :
            (s \o t)[i] = IF i <= Len(s) THEN s[i] ELSE t[i - Len(s)]
  BY ConcatProperties
<1>3. ASSUME NEW i \in 1 .. Len(s) + Len(t) PROVE (s \o t)[i] = i
  <2>1. CASE i <= Len(s)
    BY <1>1, <1>2, <2>1 DEF InOrder
  <2>2. CASE ~ (i <= Len(s))
    <3>1. i - Len(s) \in 1 .. Len(t) /\ Len(s) + (i - Len(s)) = i
      BY <1>1, <2>2
    <3>. QED
      BY <1>2, <2>2, <3>1
  <2>. QED
    BY <2>1, <2>2
<1>. QED
  BY <1>2, <1>3 DEF InOrder

\* The first units of a sequence.
LEMMA FirstOfSeq ==
    ASSUME NEW s \in Seq(Nat), NEW n \in 0 .. Len(s)
    PROVE  /\ SubSeq(s, 1, n) \in Seq(Nat) /\ Len(SubSeq(s, 1, n)) = n
           /\ \A i \in 1 .. n : SubSeq(s, 1, n)[i] = s[i]
<1>1. Len(s) \in Nat /\ \A i \in 1 .. Len(s) : s[i] \in Nat
  BY LenProperties, ElementOfSeq
<1>2. n \in Int /\ \A i \in 1 .. n : s[i] \in Nat
  BY <1>1
<1>3. /\ SubSeq(s, 1, n) \in Seq(Nat)
      /\ Len(SubSeq(s, 1, n)) = IF 1 <= n THEN n - 1 + 1 ELSE 0
      /\ \A i \in 1 .. n - 1 + 1 : SubSeq(s, 1, n)[i] = s[1 + i - 1]
  BY <1>2, SubSeqProperties
<1>4. n \in Nat /\ n - 1 + 1 = n /\ \A i \in 1 .. n : 1 + i - 1 = i
  BY <1>1
<1>. QED
  BY <1>3, <1>4

\* Of two runs from the first unit the shorter one is a prefix of the other.
LEMMA InOrderPrefix ==
    ASSUME NEW s \in Seq(Nat), NEW t \in Seq(Nat), InOrder(s), InOrder(t),
           Len(s) <= Len(t) \/ Len(t) = Limit, Len(t) <= Limit
    PROVE  IsPrefix(SubSeq(s, 1, Min({Limit, Len(s)})), t)
<1>1. Len(s) \in Nat /\ Len(t) \in Nat /\ Limit \in Nat
  BY LenProperties, SizesArePositive
<1>2. Min({Limit, Len(s)}) = IF Limit <= Len(s) THEN Limit ELSE Len(s)
  <2>1. Limit \in Int /\ Len(s) \in Int
    BY <1>1
  <2>. QED
    BY <2>1, MinOfTwo, Zenon
<1>3. PICK m : m = Min({Limit, Len(s)})
  OBVIOUS
<1>4. m \in 0 .. Len(s) /\ m <= Len(t) /\ m \in 0 .. Len(t)
  BY <1>1, <1>2, <1>3
<1>5. PICK front : front = SubSeq(s, 1, m)
  OBVIOUS
<1>6. front \in Seq(Nat) /\ Len(front) = m /\ \A i \in 1 .. m : front[i] = s[i]
  BY <1>4, <1>5, FirstOfSeq
<1>7. /\ SubSeq(t, 1, m) \in Seq(Nat) /\ Len(SubSeq(t, 1, m)) = m
      /\ \A i \in 1 .. m : SubSeq(t, 1, m)[i] = t[i]
  BY <1>4, FirstOfSeq
<1>8. /\ SubSeq(front, 1, m) \in Seq(Nat) /\ Len(SubSeq(front, 1, m)) = m
      /\ \A i \in 1 .. m : SubSeq(front, 1, m)[i] = front[i]
  BY <1>4, <1>6, FirstOfSeq
<1>9. \A i \in 1 .. m : s[i] = i /\ t[i] = i
  BY <1>1, <1>4 DEF InOrder
<1>10. \A i \in 1 .. m : SubSeq(front, 1, m)[i] = SubSeq(t, 1, m)[i]
  BY <1>6, <1>7, <1>8, <1>9
<1>11. SubSeq(front, 1, m) = SubSeq(t, 1, m)
  BY <1>7, <1>8, <1>10, SeqEqual
<1>12. IsPrefix(front, t)
  BY <1>4, <1>6, <1>11 DEF IsPrefix
<1>. QED
  BY <1>3, <1>5, <1>12

------------------------------------------------------------------------------
(* One request *)

\* Nothing happens to the request q.
Untouched(q) ==
    /\ relay'[q] = relay[q] /\ reader'[q] = reader[q]
    /\ upstream'[q] = upstream[q] /\ client'[q] = client[q]

OnlyOne(r) == \A q \in Requests \ {r} : Untouched(q)

\* A request that a step does not touch stays as the invariant has it.
LEMMA UntouchedOK ==
    ASSUME NEW q, RequestOK(q), Untouched(q)
    PROVE  RequestOK(q)'
<1>1. Passed(q)' = Passed(q) /\ Taken(q)' = Taken(q) /\ Streaming(q)' = Streaming(q)
  BY DEF Untouched, Passed, Taken, Streaming
<1>2. ReaderOK(q)' /\ UpstreamOK(q)'
  BY <1>1 DEF Untouched, RequestOK, ReaderOK, UpstreamOK
<1>3. Waits(q)' /\ Streams(q)'
  BY <1>1 DEF Untouched, RequestOK, Waits, Streams, InOrder, Limited
<1>4. Ended(q)'
  BY DEF Untouched, RequestOK, Ended, RefusedIt, AnsweredIt, StreamedIt, InOrder
<1>. QED
  BY <1>2, <1>3, <1>4 DEF RequestOK

\* A step of one request is checked for that request alone.
LEMMA RequestedStep ==
    ASSUME Requested, NEW r \in Requests, RequestOK(r)', OnlyOne(r)
    PROVE  Requested'
<1>1. \A q \in Requests \ {r} : RequestOK(q)'
  BY UntouchedOK DEF Requested, OnlyOne
<1>. QED
  BY <1>1 DEF Requested

\* The records of one request.
LEMMA ShapeFacts ==
    ASSUME Shape, NEW r \in Requests
    PROVE  /\ relay[r] \in RelayState /\ reader[r] \in ReaderState
           /\ upstream[r] \in UpstreamState /\ client[r] \in ClientState
           /\ relay[r].body \in Seq(Nat) /\ Len(relay[r].body) \in Nat
           /\ client[r].body \in Seq(Nat) /\ Len(client[r].body) \in Nat
           /\ reader[r].data \in Seq(Nat) /\ Len(reader[r].data) \in Nat
           /\ upstream[r].sent \in Nat /\ Units[r] \in Nat
           /\ Limit \in Nat \ {0} /\ ReadSize \in Nat \ {0} /\ Slots \in Nat \ {0}
<1>1. /\ relay[r] \in RelayState /\ reader[r] \in ReaderState
      /\ upstream[r] \in UpstreamState /\ client[r] \in ClientState
  BY DEF Shape
<1>2. /\ relay[r].body \in Seq(Nat) /\ client[r].body \in Seq(Nat)
      /\ reader[r].data \in Seq(Nat) /\ upstream[r].sent \in Nat
  BY <1>1 DEF RelayState, ReaderState, UpstreamState, ClientState
<1>. QED
  BY <1>1, <1>2, LenProperties, UnitsAreCounts, SizesArePositive

\* One request's record is replaced.
LEMMA Replaced ==
    ASSUME NEW T, NEW f \in [Requests -> T], NEW r \in Requests, NEW x \in T,
           NEW g, g = [f EXCEPT ![r] = x]
    PROVE  g \in [Requests -> T] /\ g[r] = x /\ \A q \in Requests \ {r} : g[q] = f[q]
OBVIOUS

\* The proxy's own answer.
LEMMA AnsweredFacts ==
    ASSUME Shape, NEW r \in Requests, NEW status \in {Refused, BadGateway}
    PROVE  /\ Answered(r, status) \in ClientState
           /\ IF client[r].mood = "gone" THEN Answered(r, status) = client[r]
              ELSE /\ Answered(r, status).status = status
                   /\ Answered(r, status).body = <<Error>>
<1>1. client[r] \in ClientState
  BY DEF Shape
<1>2. <<Error>> \in Seq(Nat)
  BY DEF Error
<1>3. [client[r] EXCEPT !.status = status, !.body = <<Error>>] \in ClientState
  BY <1>1, <1>2 DEF ClientState
<1>. QED
  BY <1>1, <1>3 DEF Answered, ClientState

\* A request that is refused is neither dialled nor captured.
LEMMA RefuseOK ==
    ASSUME Shape, Requested, NEW r \in Requests, Refuse(r)
    PROVE  Shape' /\ Requested' /\ OnlyOne(r)
<1>1. PICK h : h = [relay[r] EXCEPT !.at = "end"]
  OBVIOUS
<1>2. /\ h \in RelayState /\ h.at = "end"
      /\ h.inference = relay[r].inference /\ h.body = relay[r].body
  BY <1>1, ShapeFacts DEF RelayState
<1>3. PICK c \in ClientState :
         c = Answered(r, Refused) /\ (c = client[r] \/ c.body = <<Error>>)
  BY AnsweredFacts, Zenon
<1>4. relay' = [relay EXCEPT ![r] = h] /\ client' = [client EXCEPT ![r] = c]
  BY <1>1, <1>3 DEF Refuse
<1>5. /\ relay' \in [Requests -> RelayState] /\ relay'[r] = h
      /\ client' \in [Requests -> ClientState] /\ client'[r] = c
      /\ \A q \in Requests \ {r} : relay'[q] = relay[q] /\ client'[q] = client[q]
  BY <1>2, <1>3, <1>4, Replaced DEF Shape
<1>6. Shape'
  BY <1>5 DEF Shape, Refuse
<1>7. RequestOK(r) /\ relay[r].at = "new"
  BY DEF Requested, Refuse
<1>8. RequestOK(r)'
  BY <1>2, <1>3, <1>5, <1>7
  DEF Refuse, RequestOK, ReaderOK, UpstreamOK, Waits, Streams, Ended, RefusedIt,
      Streaming, Passed
<1>. QED
  BY <1>5, <1>6, <1>8, RequestedStep DEF Refuse, Untouched, OnlyOne

\* A request that is accepted has relayed nothing.
LEMMA AcceptOK ==
    ASSUME Shape, Requested, NEW r \in Requests, Accept(r)
    PROVE  Shape' /\ Requested' /\ OnlyOne(r)
<1>0. PICK inference \in BOOLEAN :
         relay' = [relay EXCEPT ![r].at = "dial", ![r].inference = inference]
  BY DEF Accept
<1>1. PICK h : h = [relay[r] EXCEPT !.at = "dial", !.inference = inference]
  OBVIOUS
<1>2. /\ h \in RelayState /\ h.at = "dial"
      /\ h.headersSent = relay[r].headersSent /\ h.body = relay[r].body
  BY <1>1, ShapeFacts DEF RelayState
<1>4. relay' = [relay EXCEPT ![r] = h]
  BY <1>0, <1>1
<1>5. /\ relay' \in [Requests -> RelayState] /\ relay'[r] = h
      /\ \A q \in Requests \ {r} : relay'[q] = relay[q]
  BY <1>2, <1>4, Replaced DEF Shape
<1>6. Shape'
  BY <1>5 DEF Shape, Accept
<1>7. RequestOK(r) /\ relay[r].at = "new"
  BY DEF Requested, Accept
<1>8. RequestOK(r)'
  BY <1>2, <1>5, <1>7
  DEF Accept, RequestOK, ReaderOK, UpstreamOK, Waits, Streams, Ended, Streaming, Passed
<1>. QED
  BY <1>5, <1>6, <1>8, RequestedStep DEF Accept, Untouched, OnlyOne

\* An upstream that does not answer leaves an error to the client.
LEMMA DialFailsOK ==
    ASSUME Shape, Requested, NEW r \in Requests, DialFails(r)
    PROVE  Shape' /\ Requested' /\ OnlyOne(r)
<1>1. PICK h : h = [relay[r] EXCEPT !.at = "capture", !.status = BadGateway,
                                    !.body = <<Error>>]
  OBVIOUS
<1>2. /\ h \in RelayState /\ h.at = "capture"
      /\ h.status = BadGateway /\ h.body = <<Error>>
  <2>1. <<Error>> \in Seq(Nat)
    BY DEF Error
  <2>. QED
    BY <1>1, <2>1, ShapeFacts DEF RelayState
<1>3. PICK c \in ClientState :
         /\ c = Answered(r, BadGateway)
         /\ IF client[r].mood = "gone" THEN c = client[r]
            ELSE c.status = BadGateway /\ c.body = <<Error>>
  BY AnsweredFacts, Zenon
<1>4. relay' = [relay EXCEPT ![r] = h] /\ client' = [client EXCEPT ![r] = c]
  BY <1>1, <1>3 DEF DialFails
<1>5. /\ relay' \in [Requests -> RelayState] /\ relay'[r] = h
      /\ client' \in [Requests -> ClientState] /\ client'[r] = c
      /\ \A q \in Requests \ {r} : relay'[q] = relay[q] /\ client'[q] = client[q]
  BY <1>2, <1>3, <1>4, Replaced DEF Shape
<1>6. Shape'
  BY <1>5 DEF Shape, DialFails
<1>7. RequestOK(r) /\ relay[r].at = "dial"
  BY DEF Requested, DialFails
<1>8. AnsweredIt(r)'
  BY <1>2, <1>3, <1>5, <1>7 DEF DialFails, RequestOK, UpstreamOK, Waits, AnsweredIt
<1>9. RequestOK(r)'
  BY <1>2, <1>5, <1>7, <1>8
  DEF DialFails, RequestOK, ReaderOK, UpstreamOK, Waits, Streams, Ended, Streaming, Passed
<1>. QED
  BY <1>5, <1>6, <1>9, RequestedStep DEF DialFails, Untouched, OnlyOne

\* An answer begins the reads of its body.
LEMMA DialOK ==
    ASSUME Shape, Requested, NEW r \in Requests, Dial(r)
    PROVE  Shape' /\ Requested' /\ OnlyOne(r)
<1>1. PICK h : h = [relay[r] EXCEPT !.at = "select", !.status = Upstream]
  OBVIOUS
<1>2. /\ h \in RelayState /\ h.at = "select" /\ h.status = Upstream
      /\ h.body = relay[r].body /\ h.headersSent = relay[r].headersSent
  BY <1>1, ShapeFacts DEF RelayState
<1>3. PICK d : d = [reader[r] EXCEPT !.at = "reading"]
  OBVIOUS
<1>4. RequestOK(r) /\ relay[r].at = "dial"
  BY DEF Requested, Dial
<1>5. d \in ReaderState /\ d.at = "reading" /\ d.data = <<>> /\ ~ d.last
  <2>1. reader[r] = NoRead
    BY <1>4 DEF RequestOK, ReaderOK, Streaming
  <2>2. /\ d \in ReaderState /\ d.at = "reading"
        /\ d.data = reader[r].data /\ d.last = reader[r].last
    BY <1>3, ShapeFacts DEF ReaderState
  <2>. QED
    BY <2>1, <2>2 DEF NoRead
<1>6. relay' = [relay EXCEPT ![r] = h] /\ reader' = [reader EXCEPT ![r] = d]
  BY <1>1, <1>3 DEF Dial
<1>7. /\ relay' \in [Requests -> RelayState] /\ relay'[r] = h
      /\ reader' \in [Requests -> ReaderState] /\ reader'[r] = d
      /\ \A q \in Requests \ {r} : relay'[q] = relay[q] /\ reader'[q] = reader[q]
  BY <1>2, <1>5, <1>6, Replaced DEF Shape
<1>8. Shape'
  BY <1>7 DEF Shape, Dial
<1>9. /\ upstream' = upstream /\ client' = client /\ Limit \in Nat
      /\ upstream[r].sent = 0 /\ ~ upstream[r].ended /\ ~ upstream[r].closed
      /\ client[r].status = 0 /\ client[r].body = <<>>
      /\ ~ relay[r].headersSent /\ relay[r].body = <<>>
      /\ Units[r] \in Nat /\ ReadSize \in Nat
  BY <1>4, ShapeFacts DEF Dial, RequestOK, UpstreamOK, Waits
<1>10. Passed(r)' = 0 /\ Taken(r)' = 0 /\ Len(<<>>) = 0
  BY <1>2, <1>5, <1>7, <1>9 DEF Passed, Taken
<1>11. RequestOK(r)'
  <2>0. /\ relay'[r].at = "select" /\ reader'[r].at = "reading"
        /\ reader'[r].data = <<>> /\ ~ reader'[r].last /\ Len(reader'[r].data) = 0
    BY <1>2, <1>5, <1>7
  <2>1. ReaderOK(r)' /\ UpstreamOK(r)' /\ Waits(r)' /\ Ended(r)'
    BY <2>0, <1>9 DEF ReaderOK, UpstreamOK, Waits, Ended, Streaming
  <2>2. Streams(r)'
    BY <1>2, <1>5, <1>7, <1>9, <1>10 DEF Streams, InOrder, Limited
  <2>. QED
    BY <2>1, <2>2 DEF RequestOK
<1>. QED
  BY <1>7, <1>8, <1>9, <1>11, RequestedStep DEF Untouched, OnlyOne

\* A stage of stream stays as it is while its reader goes on.
LEMMA StreamsStay ==
    ASSUME NEW r, Streams(r), relay'[r] = relay[r], client'[r] = client[r],
           Passed(r)' = Passed(r), Taken(r)' = Taken(r)
    PROVE  Streams(r)'
BY DEF Streams, Streaming, InOrder, Limited

\* The reader takes the next unit of the upstream.
LEMMA ReadOK ==
    ASSUME Shape, Requested, NEW r \in Requests, Read(r)
    PROVE  Shape' /\ Requested' /\ OnlyOne(r)
<1>0. /\ upstream[r] \in UpstreamState /\ upstream[r].sent \in Nat
      /\ Units[r] \in Nat /\ ReadSize \in Nat
  BY ShapeFacts
<1>1. /\ RequestOK(r) /\ reader[r].at = "reading" /\ relay[r].at \in {"select", "drain"}
      /\ reader[r].data = <<>> /\ Len(reader[r].data) = 0 /\ upstream[r].sent <= Units[r]
  BY DEF Read, Requested, RequestOK, ReaderOK
<1>2. PICK n \in 0 .. Min({ReadSize, Units[r] - upstream[r].sent}), last \in BOOLEAN :
         /\ reader' = [reader EXCEPT ![r] =
               [at   |-> "ready", last |-> last,
                data |-> UnitsFrom(upstream[r].sent + 1, upstream[r].sent + n)]]
         /\ upstream' = [upstream EXCEPT ![r].sent = @ + n, ![r].ended = last]
  BY DEF Read
<1>3. n \in Nat /\ n <= ReadSize /\ upstream[r].sent + n <= Units[r]
  <2>1. PICK rest \in Int : rest = Units[r] - upstream[r].sent
    BY <1>0
  <2>2. Min({ReadSize, rest}) = IF ReadSize <= rest THEN ReadSize ELSE rest
    <3>1. ReadSize \in Int /\ rest \in Int
      BY <1>0
    <3>. QED
      BY <3>1, MinOfTwo, Zenon
  <2>3. n \in 0 .. Min({ReadSize, rest})
    BY <2>1
  <2>. QED
    BY <1>0, <1>1, <2>1, <2>2, <2>3
<1>. DEFINE read == UnitsFrom(upstream[r].sent + 1, upstream[r].sent + n)
<1>4. /\ read \in Seq(Nat) /\ Len(read) = n
      /\ \A k \in 1 .. n : read[k] = upstream[r].sent + k
  BY <1>0, <1>3, UnitsFromFacts
<1>. HIDE DEF read
<1>5. PICK d : d = [at |-> "ready", last |-> last, data |-> read]
  OBVIOUS
<1>6. d \in ReaderState /\ d.at = "ready" /\ d.data = read /\ d.last = last
  BY <1>4, <1>5 DEF ReaderState
<1>7. PICK u : u = [upstream[r] EXCEPT !.sent = @ + n, !.ended = last]
  OBVIOUS
<1>8. /\ u \in UpstreamState /\ u.sent = upstream[r].sent + n /\ u.ended = last
      /\ u.closed = upstream[r].closed
  <2>1. PICK sum \in Nat : sum = upstream[r].sent + n
    BY <1>0, <1>3
  <2>2. u = [upstream[r] EXCEPT !.sent = sum, !.ended = last]
    BY <1>7, <2>1
  <2>3. /\ u \in UpstreamState /\ u.sent = sum /\ u.ended = last
        /\ u.closed = upstream[r].closed
    BY <1>0, <2>2, Zenon DEF UpstreamState
  <2>. QED
    BY <2>1, <2>3
<1>9. reader' = [reader EXCEPT ![r] = d] /\ upstream' = [upstream EXCEPT ![r] = u]
  BY <1>2, <1>5, <1>7 DEF read
<1>10. /\ reader' \in [Requests -> ReaderState] /\ reader'[r] = d
       /\ upstream' \in [Requests -> UpstreamState] /\ upstream'[r] = u
       /\ \A q \in Requests \ {r} : reader'[q] = reader[q] /\ upstream'[q] = upstream[q]
  BY <1>6, <1>8, <1>9, Replaced DEF Shape
<1>11. Shape' /\ relay' = relay /\ client' = client
  BY <1>10 DEF Shape, Read
<1>12. /\ Passed(r) = upstream[r].sent /\ Passed(r)' = upstream[r].sent
       /\ Taken(r)' = Taken(r)
  BY <1>0, <1>1, <1>3, <1>4, <1>6, <1>8, <1>10, <1>11 DEF Passed, Taken
<1>13. ReaderOK(r)'
  <2>1. /\ reader'[r].at = "ready" /\ Len(reader'[r].data) = n
        /\ \A k \in 1 .. n : reader'[r].data[k] = upstream[r].sent + k
        /\ upstream'[r].sent = upstream[r].sent + n
        /\ relay'[r].at \in {"select", "drain"}
    BY <1>1, <1>4, <1>6, <1>8, <1>10, <1>11
  <2>. QED
    BY <1>0, <1>3, <1>12, <2>1 DEF ReaderOK, Streaming
<1>14. UpstreamOK(r)'
  <2>1. /\ reader'[r].last = last /\ upstream'[r].ended = last
        /\ upstream'[r].closed = upstream[r].closed /\ relay'[r].at = relay[r].at
    BY <1>6, <1>8, <1>10, <1>11
  <2>. QED
    BY <1>1, <2>1 DEF RequestOK, UpstreamOK
<1>15. Streams(r)' /\ Waits(r)' /\ Ended(r)'
  BY <1>1, <1>11, <1>12, StreamsStay DEF RequestOK, Waits, Ended
<1>. QED
  BY <1>10, <1>11, <1>13, <1>14, <1>15, RequestedStep DEF RequestOK, Untouched, OnlyOne

\* A reader that is stopped hands nothing more over.
LEMMA ReadAbortedOK ==
    ASSUME Shape, Requested, NEW r \in Requests, ReadAborted(r)
    PROVE  Shape' /\ Requested' /\ OnlyOne(r)
<1>1. /\ RequestOK(r) /\ reader[r].at = "reading" /\ relay[r].at \in {"select", "drain"}
      /\ reader[r].data = <<>> /\ Len(reader[r].data) = 0
  BY DEF ReadAborted, Requested, RequestOK, ReaderOK
<1>2. PICK d : d = [at |-> "ready", last |-> TRUE, data |-> <<>>]
  OBVIOUS
<1>3. d \in ReaderState /\ d.at = "ready" /\ d.data = <<>>
  BY <1>2 DEF ReaderState
<1>4. d.last
  BY <1>2
<1>5. reader' = [reader EXCEPT ![r] = d]
  BY <1>2 DEF ReadAborted
<1>6. /\ reader' \in [Requests -> ReaderState] /\ reader'[r] = d
      /\ \A q \in Requests \ {r} : reader'[q] = reader[q]
  BY <1>3, <1>5, Replaced DEF Shape
<1>7. Shape' /\ relay' = relay /\ client' = client /\ upstream' = upstream
  BY <1>6 DEF Shape, ReadAborted
<1>8. Passed(r)' = Passed(r) /\ Taken(r)' = Taken(r)
  BY <1>1, <1>3, <1>6, <1>7 DEF Passed, Taken
<1>9. ReaderOK(r)'
  <2>1. reader'[r].at = "ready" /\ reader'[r].data = <<>> /\ Len(reader'[r].data) = 0
    BY <1>3, <1>6
  <2>. QED
    BY <1>1, <1>7, <2>1, ShapeFacts DEF RequestOK, ReaderOK, Streaming
<1>10. UpstreamOK(r)'
  BY <1>1, <1>4, <1>6, <1>7 DEF RequestOK, UpstreamOK
<1>11. Streams(r)' /\ Waits(r)' /\ Ended(r)'
  BY <1>1, <1>7, <1>8, StreamsStay DEF RequestOK, Waits, Ended
<1>. QED
  BY <1>6, <1>7, <1>9, <1>10, <1>11, RequestedStep DEF RequestOK, Untouched, OnlyOne

\* What is kept of the read is what it adds, as far as the limit goes.
LEMMA KeptFacts ==
    ASSUME Shape, NEW r \in Requests, RequestOK(r), relay[r].at = "select"
    PROVE  /\ Kept(r, reader[r].data) \in Seq(Nat) /\ InOrder(Kept(r, reader[r].data))
           /\ Len(Kept(r, reader[r].data)) =
                 IF relay[r].inference THEN Limited(upstream[r].sent) ELSE 0
<1>1. PICK body \in Seq(Nat), data \in Seq(Nat), sent \in Nat, p \in Nat :
         /\ body = relay[r].body /\ data = reader[r].data
         /\ sent = upstream[r].sent /\ p = Passed(r)
  <2>1. Passed(r) \in Nat
    BY ShapeFacts DEF Passed, RequestOK, ReaderOK
  <2>. QED
    BY <2>1, ShapeFacts
<1>2. /\ Len(body) \in Nat /\ Len(data) \in Nat /\ Limit \in Nat /\ sent = p + Len(data)
      /\ InOrder(body) /\ \A i \in 1 .. Len(data) : data[i] = p + i
      /\ Len(body) = IF relay[r].inference THEN Limited(p) ELSE 0
  <2>1. InOrder(body) /\ Len(body) = IF relay[r].inference THEN Limited(p) ELSE 0
    BY <1>1 DEF RequestOK, Streams, Streaming, Taken
  <2>2. \A i \in 1 .. Len(data) : data[i] = p + i
    BY <1>1 DEF RequestOK, ReaderOK
  <2>3. Len(body) \in Nat /\ Len(data) \in Nat /\ Limit \in Nat
    BY <1>1, ShapeFacts
  <2>4. p = sent - Len(data)
    BY <1>1 DEF Passed
  <2>. QED
    BY <2>1, <2>2, <2>3, <2>4
<1>3. CASE relay[r].inference
  <2>0. Len(body) = IF p <= Limit THEN p ELSE Limit
    BY <1>2, <1>3, Zenon DEF Limited
  <2>1. PICK room \in Nat : room = Limit - Len(body)
    BY <1>2, <2>0
  <2>2. PICK m : m = Min({Len(data), room})
    OBVIOUS
  <2>3. m = IF Len(data) <= room THEN Len(data) ELSE room
    <3>1. Len(data) \in Int /\ room \in Int
      BY <1>2
    <3>. QED
      BY <2>2, <3>1, MinOfTwo, Zenon
  <2>4. m \in 0 .. Len(data)
    BY <1>2, <2>3
  <2>5. PICK front : front = SubSeq(data, 1, m)
    OBVIOUS
  <2>6. front \in Seq(Nat) /\ Len(front) = m /\ \A i \in 1 .. m : front[i] = data[i]
    BY <2>4, <2>5, FirstOfSeq
  <2>7. \A i \in 1 .. Len(front) : front[i] = Len(body) + i
    <3>1. CASE p <= Limit
      <4>1. Len(body) = p /\ \A i \in 1 .. m : i \in 1 .. Len(data)
        BY <1>2, <2>0, <2>4, <3>1
      <4>2. \A i \in 1 .. Len(data) : data[i] = p + i
        BY <1>2
      <4>. QED
        BY <2>6, <4>1, <4>2
    <3>2. CASE ~ (p <= Limit)
      <4>1. m = 0
        BY <1>2, <2>0, <2>1, <2>3, <3>2
      <4>. QED
        BY <2>6, <4>1
    <3>. QED
      BY <3>1, <3>2
  <2>8. /\ body \o front \in Seq(Nat) /\ Len(body \o front) = Len(body) + m
        /\ InOrder(body \o front)
    BY <1>2, <2>6, <2>7, UnitsBehind
  <2>9. Kept(r, data) = body \o front
    <3>1. Kept(r, data) = body \o SubSeq(data, 1, Min({Len(data), Limit - Len(body)}))
      BY <1>1, <1>3, Zenon DEF Kept
    <3>. QED
      BY <2>1, <2>2, <2>5, <3>1, Zenon
  <2>10. Len(body) + m = Limited(sent)
    <3>1. PICK b \in Nat, l \in Nat : b = Len(body) /\ l = Len(data)
      BY <1>2
    <3>2. /\ sent = p + l /\ b = (IF p <= Limit THEN p ELSE Limit)
          /\ room = Limit - b /\ m = (IF l <= room THEN l ELSE room) /\ Limit \in Nat
      BY <1>2, <2>0, <2>1, <2>3, <3>1
    <3>3. b + m = IF sent <= Limit THEN sent ELSE Limit
      BY <3>2
    <3>. QED
      BY <3>1, <3>3 DEF Limited
  <2>11. PICK kept : kept = Kept(r, reader[r].data) /\ kept = body \o front
    BY <1>1, <2>9, Zenon
  <2>12. kept \in Seq(Nat) /\ InOrder(kept) /\ Len(kept) = Limited(upstream[r].sent)
    <3>1. kept \in Seq(Nat) /\ InOrder(kept) /\ Len(kept) = Len(body) + m
      BY <2>8, <2>11, Zenon
    <3>2. Len(kept) = Limited(upstream[r].sent)
      BY <1>1, <2>10, <3>1, Zenon
    <3>. QED
      BY <3>1, <3>2
  <2>. QED
    BY <1>3, <2>11, <2>12, Zenon
<1>4. CASE ~ relay[r].inference
  BY <1>4 DEF Kept, InOrder
<1>. QED
  BY <1>3, <1>4

\* The writer takes the oldest unit between the two.
LEMMA TakeOK ==
    ASSUME Shape, Requested, NEW r \in Requests, Take(r)
    PROVE  Shape' /\ Requested' /\ OnlyOne(r)
<1>1. /\ RequestOK(r) /\ relay[r].at = "select" /\ reader[r].at = "ready"
      /\ relay[r] \in RelayState /\ reader[r] \in ReaderState /\ client[r] \in ClientState
  BY ShapeFacts DEF Take, Requested
<1>2. PICK kept \in Seq(Nat) :
         /\ kept = Kept(r, reader[r].data) /\ InOrder(kept)
         /\ Len(kept) = IF relay[r].inference THEN Limited(upstream[r].sent) ELSE 0
  BY <1>1, KeptFacts, Zenon
<1>3. PICK at \in {"write", "capture"} :
         at = AfterRead(reader[r]) /\ (at = "write" <=> reader[r].data # <<>>)
  BY DEF AfterRead
<1>4. PICK h : h = [relay[r] EXCEPT !.at = at, !.body = kept, !.headersSent = TRUE]
  OBVIOUS
<1>5. /\ h \in RelayState /\ h.at = at /\ h.body = kept /\ h.status = relay[r].status
      /\ h.inference = relay[r].inference
  BY <1>1, <1>4 DEF RelayState
<1>6. h.headersSent
  BY <1>1, <1>4 DEF RelayState
<1>7. PICK c : c = [client[r] EXCEPT !.status =
                      IF relay[r].headersSent \/ client[r].mood = "gone"
                      THEN @ ELSE relay[r].status]
  OBVIOUS
<1>8. /\ relay[r].status = Upstream
      /\ IF relay[r].headersSent THEN client[r].status \in {0, Upstream}
                                      /\ (client[r].status = 0 => client[r].mood = "gone")
         ELSE client[r].status = 0
      /\ InOrder(client[r].body) /\ Len(client[r].body) <= Passed(r)
      /\ client[r].mood # "gone" => Len(client[r].body) = Passed(r)
  BY <1>1 DEF RequestOK, Streams, Streaming
<1>9. /\ c \in ClientState /\ c.body = client[r].body /\ c.mood = client[r].mood
      /\ c.status \in {0, Upstream} /\ (c.status = 0 => c.mood = "gone")
  BY <1>1, <1>7, <1>8 DEF ClientState, Upstream
<1>10. PICK d : d = IF at = "write" THEN [reader[r] EXCEPT !.at = "none"] ELSE NoRead
  OBVIOUS
<1>11. d \in ReaderState /\ d.at = "none" /\ d.data = reader[r].data
  BY <1>1, <1>3, <1>10 DEF ReaderState, NoRead
<1>12. /\ at = "write" => d.last = reader[r].last
       /\ at = "capture" => d = NoRead
  BY <1>1, <1>10 DEF ReaderState
<1>13. /\ relay' = [relay EXCEPT ![r] = h] /\ client' = [client EXCEPT ![r] = c]
       /\ reader' = [reader EXCEPT ![r] = d]
  <2>1. /\ relay' = [relay EXCEPT ![r].at = at, ![r].body = kept, ![r].headersSent = TRUE]
        /\ reader' = [reader EXCEPT ![r] = IF at = "write" THEN [@ EXCEPT !.at = "none"]
                                           ELSE NoRead]
    BY <1>2, <1>3 DEF Take
  <2>2. client' = [client EXCEPT ![r] = c]
    BY <1>7 DEF Take
  <2>. QED
    BY <1>4, <1>10, <2>1, <2>2
<1>14. /\ relay' \in [Requests -> RelayState] /\ relay'[r] = h
       /\ reader' \in [Requests -> ReaderState] /\ reader'[r] = d
       /\ client' \in [Requests -> ClientState] /\ client'[r] = c
       /\ \A q \in Requests \ {r} :
             relay'[q] = relay[q] /\ reader'[q] = reader[q] /\ client'[q] = client[q]
  BY <1>5, <1>9, <1>11, <1>13, Replaced DEF Shape
<1>15. Shape' /\ upstream' = upstream
  BY <1>14 DEF Shape, Take
<1>16. /\ relay'[r].at = at /\ relay'[r].body = kept /\ relay'[r].status = Upstream
       /\ relay'[r].inference = relay[r].inference /\ relay'[r].headersSent
       /\ client'[r].body = client[r].body /\ client'[r].mood = client[r].mood
       /\ client'[r].status \in {0, Upstream}
       /\ client'[r].status = 0 => client'[r].mood = "gone"
       /\ reader'[r].at = "none" /\ reader'[r].data = reader[r].data
       /\ upstream'[r] = upstream[r]
  BY <1>5, <1>6, <1>8, <1>9, <1>11, <1>14, <1>15
<1>17. Passed(r)' = Passed(r)
  BY <1>16 DEF Passed
<1>18. ReaderOK(r)'
  BY <1>1, <1>3, <1>12, <1>14, <1>16, <1>17 DEF RequestOK, ReaderOK, Streaming
<1>19. UpstreamOK(r)'
  BY <1>1, <1>3, <1>12, <1>14, <1>16 DEF RequestOK, UpstreamOK
<1>20. Waits(r)'
  BY <1>3, <1>16 DEF Waits
<1>21. Streams(r)'
  <2>1. CASE at = "write"
    <3>1. Taken(r)' = upstream[r].sent
      BY <1>16, <2>1 DEF Taken
    <3>. QED
      BY <1>2, <1>8, <1>16, <1>17, <2>1, <3>1 DEF Streams, InOrder, Limited
  <2>2. CASE at = "capture"
    BY <1>16, <2>2 DEF Streams, Streaming
  <2>. QED
    BY <1>3, <2>1, <2>2
<1>22. Ended(r)'
  <2>1. CASE at = "write"
    BY <1>16, <2>1 DEF Ended
  <2>2. CASE at = "capture"
    <3>1. Passed(r) = upstream[r].sent /\ Limit \in Nat
      <4>1. Len(reader[r].data) = 0
        BY <1>3, <2>2
      <4>. QED
        BY <4>1, ShapeFacts DEF Passed
    <3>2. StreamedIt(r)'
      BY <1>2, <1>8, <1>16, <3>1, ShapeFacts DEF StreamedIt, InOrder, Limited
    <3>. QED
      BY <3>2 DEF Ended
  <2>. QED
    BY <1>3, <2>1, <2>2
<1>. QED
  BY <1>14, <1>15, <1>18, <1>19, <1>20, <1>21, <1>22, RequestedStep
  DEF RequestOK, Untouched, OnlyOne

\* What the client gets is captured in the same order.
LEMMA WriteOK ==
    ASSUME Shape, Requested, NEW r \in Requests, Write(r)
    PROVE  Shape' /\ Requested' /\ OnlyOne(r)
<1>1. /\ RequestOK(r) /\ relay[r].at = "write" /\ client[r].mood # "stalls"
      /\ relay[r] \in RelayState /\ reader[r] \in ReaderState /\ client[r] \in ClientState
  BY ShapeFacts DEF Write, Requested
<1>2. /\ relay[r].status = Upstream /\ relay[r].headersSent
      /\ InOrder(client[r].body) /\ InOrder(relay[r].body)
      /\ Len(client[r].body) <= Passed(r)
      /\ client[r].mood # "gone" => Len(client[r].body) = Passed(r)
      /\ Len(relay[r].body) = IF relay[r].inference THEN Limited(upstream[r].sent) ELSE 0
      /\ client[r].status \in {0, Upstream}
      /\ client[r].status = 0 => client[r].mood = "gone"
  BY <1>1 DEF RequestOK, Streams, Streaming, Taken
<1>3. PICK body : body = IF client[r].mood = "gone" THEN client[r].body
                         ELSE client[r].body \o reader[r].data
  OBVIOUS
<1>4. /\ body \in Seq(Nat) /\ Len(body) \in Nat /\ InOrder(body)
      /\ Len(body) <= upstream[r].sent
      /\ client[r].mood # "gone" => Len(body) = upstream[r].sent
  <2>1. Passed(r) = upstream[r].sent - Len(reader[r].data) /\ Passed(r) \in Nat
    BY <1>1, ShapeFacts DEF Passed, RequestOK, ReaderOK
  <2>2. CASE client[r].mood = "gone"
    BY <1>2, <1>3, <2>1, <2>2, ShapeFacts
  <2>3. CASE client[r].mood # "gone"
    <3>1. \A i \in 1 .. Len(reader[r].data) : reader[r].data[i] = Len(client[r].body) + i
      BY <1>1, <1>2, <2>3 DEF RequestOK, ReaderOK
    <3>2. PICK s \in Seq(Nat), t \in Seq(Nat) :
             s = client[r].body /\ t = reader[r].data
      BY ShapeFacts
    <3>3. s \o t \in Seq(Nat) /\ Len(s \o t) = Len(s) + Len(t) /\ InOrder(s \o t)
      BY <1>2, <3>1, <3>2, UnitsBehind
    <3>4. body = s \o t
      BY <1>3, <2>3, <3>2, Zenon
    <3>5. body \in Seq(Nat) /\ Len(body) = Len(s) + Len(t) /\ InOrder(body)
      BY <3>3, <3>4, Zenon
    <3>6. Len(body) = upstream[r].sent
      <4>1. PICK p \in Nat, l \in Nat :
               p = Passed(r) /\ l = Len(reader[r].data) /\ upstream[r].sent = p + l
        BY <2>1, ShapeFacts
      <4>2. Len(s) = p /\ Len(t) = l
        BY <1>2, <2>3, <3>2, <4>1, Zenon
      <4>. QED
        BY <3>5, <4>1, <4>2
    <3>7. upstream[r].sent \in Nat
      BY ShapeFacts
    <3>8. Len(body) \in Nat /\ Len(body) <= upstream[r].sent
      BY <3>6, <3>7
    <3>. QED
      BY <3>5, <3>6, <3>8, Zenon
  <2>. QED
    BY <2>2, <2>3
<1>5. PICK c : c = [client[r] EXCEPT !.body = body]
  OBVIOUS
<1>6. /\ c \in ClientState /\ c.body = body /\ c.mood = client[r].mood
      /\ c.status = client[r].status
  BY <1>1, <1>4, <1>5 DEF ClientState
<1>7. PICK at \in {"capture", "select"} : at = IF reader[r].last THEN "capture" ELSE "select"
  OBVIOUS
<1>8. PICK h : h = [relay[r] EXCEPT !.at = at]
  OBVIOUS
<1>9. /\ h \in RelayState /\ h.at = at /\ h.body = relay[r].body
      /\ h.status = relay[r].status
  BY <1>1, <1>8 DEF RelayState
<1>10. h.headersSent = relay[r].headersSent /\ h.inference = relay[r].inference
  BY <1>1, <1>8 DEF RelayState
<1>11. PICK d : d = IF at = "capture" THEN NoRead ELSE [NoRead EXCEPT !.at = "reading"]
  OBVIOUS
<1>12. /\ d \in ReaderState /\ d.data = <<>> /\ Len(d.data) = 0
       /\ d.at = IF at = "capture" THEN "none" ELSE "reading"
  <2>1. CASE at = "capture"
    BY <1>11, <2>1 DEF ReaderState, NoRead
  <2>2. CASE at # "capture"
    <3>1. PICK e : e = [NoRead EXCEPT !.at = "reading"]
      OBVIOUS
    <3>2. e = [at |-> "reading", data |-> <<>>, last |-> FALSE]
      BY <3>1 DEF NoRead
    <3>3. e \in ReaderState /\ e.data = <<>> /\ e.at = "reading"
      BY <3>2 DEF ReaderState
    <3>4. d = e
      BY <1>11, <2>2, <3>1, Zenon
    <3>. QED
      BY <2>2, <3>3, <3>4
  <2>. QED
    BY <2>1, <2>2
<1>13. ~ d.last /\ (at = "capture" => d = NoRead)
  BY <1>11 DEF NoRead
<1>14. /\ relay' = [relay EXCEPT ![r] = h] /\ client' = [client EXCEPT ![r] = c]
       /\ reader' = [reader EXCEPT ![r] = d]
  <2>1. /\ relay' = [relay EXCEPT ![r].at = at]
        /\ reader' = [reader EXCEPT ![r] = IF at = "capture" THEN NoRead
                                           ELSE [NoRead EXCEPT !.at = "reading"]]
    BY <1>7 DEF Write
  <2>2. client' = [client EXCEPT ![r] = c]
    BY <1>3, <1>5 DEF Write
  <2>. QED
    BY <1>8, <1>11, <2>1, <2>2
<1>15. /\ relay' \in [Requests -> RelayState] /\ relay'[r] = h
       /\ reader' \in [Requests -> ReaderState] /\ reader'[r] = d
       /\ client' \in [Requests -> ClientState] /\ client'[r] = c
       /\ \A q \in Requests \ {r} :
             relay'[q] = relay[q] /\ reader'[q] = reader[q] /\ client'[q] = client[q]
  BY <1>6, <1>9, <1>12, <1>14, Replaced DEF Shape
<1>16. Shape' /\ upstream' = upstream
  BY <1>15 DEF Shape, Write
<1>17. /\ relay'[r].at = at /\ relay'[r].body = relay[r].body
       /\ relay'[r].status = Upstream /\ relay'[r].headersSent
       /\ relay'[r].inference = relay[r].inference
       /\ client'[r].body = body /\ client'[r].mood = client[r].mood
       /\ client'[r].status = client[r].status
       /\ reader'[r].data = <<>> /\ Len(reader'[r].data) = 0 /\ ~ reader'[r].last
       /\ reader'[r].at = IF at = "capture" THEN "none" ELSE "reading"
       /\ upstream'[r] = upstream[r]
  BY <1>2, <1>6, <1>9, <1>10, <1>12, <1>13, <1>15, <1>16
<1>18. Passed(r)' = upstream[r].sent /\ Taken(r)' = upstream[r].sent
  BY <1>7, <1>17, ShapeFacts DEF Passed, Taken
<1>19. ReaderOK(r)'
  BY <1>1, <1>7, <1>13, <1>15, <1>17, ShapeFacts DEF RequestOK, ReaderOK, Streaming
<1>20. UpstreamOK(r)'
  BY <1>1, <1>7, <1>17 DEF RequestOK, UpstreamOK
<1>21. Waits(r)'
  BY <1>7, <1>17 DEF Waits
<1>22. Streams(r)'
  BY <1>2, <1>4, <1>7, <1>17, <1>18 DEF Streams, Streaming, InOrder, Limited
<1>23. Ended(r)'
  <2>1. StreamedIt(r)'
    BY <1>2, <1>4, <1>17, ShapeFacts DEF StreamedIt, InOrder, Limited
  <2>. QED
    BY <2>1 DEF Ended
<1>. QED
  BY <1>15, <1>16, <1>19, <1>20, <1>21, <1>22, <1>23, RequestedStep
  DEF RequestOK, Untouched, OnlyOne

\* What was streamed is streamed when the handler leaves stream.
LEMMA StreamLeft ==
    ASSUME Shape, NEW r \in Requests, RequestOK(r), relay[r].at \in {"write", "drain"},
           relay[r].headersSent, relay[r].at = "write" => client[r].mood = "gone",
           relay'[r].body = relay[r].body, relay'[r].status = relay[r].status,
           relay'[r].inference = relay[r].inference,
           client'[r] = client[r], upstream'[r] = upstream[r]
    PROVE  StreamedIt(r)'
<1>1. /\ relay[r].status = Upstream
      /\ InOrder(client[r].body) /\ InOrder(relay[r].body)
      /\ Len(client[r].body) <= Passed(r)
      /\ Len(relay[r].body) = IF relay[r].inference THEN Limited(Taken(r)) ELSE 0
      /\ client[r].status \in {0, Upstream}
      /\ client[r].status = 0 => client[r].mood = "gone"
  BY DEF RequestOK, Streams, Streaming
<1>2. relay[r].at = "drain" => upstream[r].closed
  BY DEF RequestOK, UpstreamOK
<1>3. Passed(r) \in Nat /\ Taken(r) \in Nat /\ Passed(r) <= Taken(r)
  BY ShapeFacts DEF Passed, Taken, RequestOK, ReaderOK
<1>4. /\ Len(relay[r].body) <= Limit
      /\ relay[r].inference => \/ Len(client[r].body) <= Len(relay[r].body)
                               \/ Len(relay[r].body) = Limit
  BY <1>1, <1>3, ShapeFacts DEF Limited
<1>. QED
  BY <1>1, <1>2, <1>4 DEF StreamedIt, InOrder

\* A client that cannot be written to ends its stream.
LEMMA WriteFailsOK ==
    ASSUME Shape, Requested, NEW r \in Requests, WriteFails(r)
    PROVE  Shape' /\ Requested' /\ OnlyOne(r)
<1>1. /\ RequestOK(r) /\ relay[r].at = "write" /\ client[r].mood = "gone"
      /\ relay[r] \in RelayState /\ relay[r].headersSent
  BY ShapeFacts DEF WriteFails, Requested, RequestOK, Streams, Streaming
<1>2. PICK h : h = [relay[r] EXCEPT !.at = "capture"]
  OBVIOUS
<1>3. /\ h \in RelayState /\ h.at = "capture" /\ h.body = relay[r].body
      /\ h.status = relay[r].status /\ h.inference = relay[r].inference
  BY <1>1, <1>2 DEF RelayState
<1>4. PICK d : d = NoRead
  OBVIOUS
<1>5. d \in ReaderState /\ d.at = "none" /\ d.data = <<>> /\ Len(d.data) = 0
  BY <1>4 DEF NoRead, ReaderState
<1>6. relay' = [relay EXCEPT ![r] = h] /\ reader' = [reader EXCEPT ![r] = d]
  BY <1>2, <1>4 DEF WriteFails
<1>7. /\ relay' \in [Requests -> RelayState] /\ relay'[r] = h
      /\ reader' \in [Requests -> ReaderState] /\ reader'[r] = d
      /\ \A q \in Requests \ {r} : relay'[q] = relay[q] /\ reader'[q] = reader[q]
  BY <1>3, <1>5, <1>6, Replaced DEF Shape
<1>8. Shape' /\ upstream' = upstream /\ client' = client
  BY <1>7 DEF Shape, WriteFails
<1>9. StreamedIt(r)'
  BY <1>1, <1>3, <1>7, <1>8, StreamLeft
<1>10. ReaderOK(r)'
  BY <1>1, <1>3, <1>4, <1>5, <1>7, <1>8, ShapeFacts DEF RequestOK, ReaderOK, Streaming
<1>11. UpstreamOK(r)' /\ Waits(r)' /\ Streams(r)' /\ Ended(r)'
  BY <1>3, <1>7, <1>9 DEF UpstreamOK, Waits, Streams, Streaming, Ended
<1>. QED
  BY <1>7, <1>8, <1>10, <1>11, RequestedStep DEF RequestOK, Untouched, OnlyOne

\* The deadline of a silent upstream ends the stream.
LEMMA IdleOK ==
    ASSUME Shape, Requested, NEW r \in Requests, Idle(r)
    PROVE  Shape' /\ Requested' /\ OnlyOne(r)
<1>1. RequestOK(r) /\ relay[r].at = "select"
  BY DEF Idle, Requested
<1>2. PICK h : h = [relay[r] EXCEPT !.at = "drain"]
  OBVIOUS
<1>3. /\ h \in RelayState /\ h.at = "drain" /\ h.body = relay[r].body
      /\ h.status = relay[r].status /\ h.inference = relay[r].inference
      /\ h.headersSent = relay[r].headersSent
  BY <1>2, ShapeFacts DEF RelayState
<1>4. PICK u : u = [upstream[r] EXCEPT !.closed = TRUE]
  OBVIOUS
<1>5. u \in UpstreamState /\ u.sent = upstream[r].sent /\ u.ended = upstream[r].ended
  BY <1>4, ShapeFacts DEF UpstreamState
<1>6. u.closed
  BY <1>4, ShapeFacts DEF UpstreamState
<1>7. relay' = [relay EXCEPT ![r] = h] /\ upstream' = [upstream EXCEPT ![r] = u]
  BY <1>2, <1>4 DEF Idle
<1>8. /\ relay' \in [Requests -> RelayState] /\ relay'[r] = h
      /\ upstream' \in [Requests -> UpstreamState] /\ upstream'[r] = u
      /\ \A q \in Requests \ {r} : relay'[q] = relay[q] /\ upstream'[q] = upstream[q]
  BY <1>3, <1>5, <1>7, Replaced DEF Shape
<1>9. Shape' /\ reader' = reader /\ client' = client
  BY <1>8 DEF Shape, Idle
<1>10. Passed(r)' = Passed(r) /\ Taken(r)' = Taken(r)
  BY <1>1, <1>3, <1>5, <1>8, <1>9 DEF Passed, Taken
<1>11. ReaderOK(r)'
  BY <1>1, <1>3, <1>5, <1>8, <1>9, <1>10 DEF RequestOK, ReaderOK, Streaming
<1>12. UpstreamOK(r)' /\ Waits(r)' /\ Ended(r)'
  BY <1>3, <1>6, <1>8 DEF UpstreamOK, Waits, Ended
<1>13. Streams(r)'
  BY <1>1, <1>3, <1>8, <1>9, <1>10 DEF RequestOK, Streams, Streaming, InOrder, Limited
<1>. QED
  BY <1>8, <1>9, <1>11, <1>12, <1>13, RequestedStep DEF RequestOK, Untouched, OnlyOne

\* A relay that gives up has passed on what it took, but for the last read.
LEMMA GiveUpOK ==
    ASSUME Shape, Requested, NEW r \in Requests, GiveUp(r)
    PROVE  Shape' /\ Requested' /\ OnlyOne(r)
<1>1. /\ RequestOK(r) /\ relay[r].at = "drain" /\ reader[r].at = "ready"
      /\ relay[r] \in RelayState /\ client[r] \in ClientState
  BY ShapeFacts DEF GiveUp, Joined, Requested
<1>2. PICK d : d = NoRead
  OBVIOUS
<1>3. d \in ReaderState /\ d.at = "none" /\ d.data = <<>> /\ Len(d.data) = 0
  BY <1>2 DEF NoRead, ReaderState
<1>4. /\ reader' = [reader EXCEPT ![r] = d]
      /\ upstream' = upstream /\ capture' = capture /\ server' = server
  BY <1>1, <1>2 DEF GiveUp
<1>5. /\ reader' \in [Requests -> ReaderState] /\ reader'[r] = d
      /\ \A q \in Requests \ {r} : reader'[q] = reader[q]
  BY <1>3, <1>4, Replaced DEF Shape
<1>6. PICK h \in RelayState, c \in ClientState :
         /\ relay' = [relay EXCEPT ![r] = h] /\ client' = [client EXCEPT ![r] = c]
         /\ h.at = "capture"
         /\ relay[r].headersSent =>
               /\ h.body = relay[r].body /\ h.status = relay[r].status
               /\ h.inference = relay[r].inference /\ c = client[r]
         /\ ~ relay[r].headersSent =>
               /\ h.body = <<Error>> /\ h.status = BadGateway
               /\ IF client[r].mood = "gone" THEN c = client[r]
                  ELSE c.status = BadGateway /\ c.body = <<Error>>
  <2>1. CASE relay[r].headersSent
    <3>1. PICK h : h = [relay[r] EXCEPT !.at = "capture"]
      OBVIOUS
    <3>2. /\ h \in RelayState /\ h.at = "capture" /\ h.body = relay[r].body
          /\ h.status = relay[r].status /\ h.inference = relay[r].inference
      BY <1>1, <3>1 DEF RelayState
    <3>3. relay' = [relay EXCEPT ![r] = h] /\ client' = [client EXCEPT ![r] = client[r]]
      BY <2>1, <3>1 DEF GiveUp, Shape
    <3>. QED
      BY <1>1, <2>1, <3>2, <3>3, Zenon
  <2>2. CASE ~ relay[r].headersSent
    <3>1. PICK h : h = [relay[r] EXCEPT !.at = "capture", !.status = BadGateway,
                                        !.body = <<Error>>]
      OBVIOUS
    <3>2. h \in RelayState /\ h.at = "capture" /\ h.status = BadGateway /\ h.body = <<Error>>
      <4>1. <<Error>> \in Seq(Nat)
        BY DEF Error
      <4>. QED
        BY <1>1, <3>1, <4>1 DEF RelayState
    <3>3. PICK c \in ClientState :
             /\ c = Answered(r, BadGateway)
             /\ IF client[r].mood = "gone" THEN c = client[r]
                ELSE c.status = BadGateway /\ c.body = <<Error>>
      BY AnsweredFacts, Zenon
    <3>4. relay' = [relay EXCEPT ![r] = h] /\ client' = [client EXCEPT ![r] = c]
      BY <2>2, <3>1, <3>3 DEF GiveUp
    <3>. QED
      BY <2>2, <3>2, <3>3, <3>4, Zenon
  <2>. QED
    BY <2>1, <2>2
<1>7. /\ relay' \in [Requests -> RelayState] /\ relay'[r] = h
      /\ client' \in [Requests -> ClientState] /\ client'[r] = c
      /\ \A q \in Requests \ {r} : relay'[q] = relay[q] /\ client'[q] = client[q]
  BY <1>6, Replaced DEF Shape
<1>8. Shape'
  BY <1>4, <1>5, <1>7 DEF Shape
<1>9. StreamedIt(r)' \/ AnsweredIt(r)'
  <2>1. CASE relay[r].headersSent
    BY <1>1, <1>4, <1>6, <1>7, <2>1, StreamLeft
  <2>2. CASE ~ relay[r].headersSent
    <3>1. client[r].status = 0 /\ client[r].body = <<>> /\ upstream[r].closed
      BY <1>1, <2>2 DEF RequestOK, Streams, Streaming, UpstreamOK
    <3>. QED
      BY <1>4, <1>6, <1>7, <2>2, <3>1 DEF AnsweredIt
  <2>. QED
    BY <2>1, <2>2
<1>10. ReaderOK(r)'
  BY <1>1, <1>2, <1>3, <1>4, <1>5, <1>6, <1>7, ShapeFacts
  DEF RequestOK, ReaderOK, Streaming
<1>11. UpstreamOK(r)' /\ Waits(r)' /\ Streams(r)' /\ Ended(r)'
  BY <1>6, <1>7, <1>9 DEF UpstreamOK, Waits, Streams, Streaming, Ended
<1>. QED
  BY <1>4, <1>5, <1>7, <1>8, <1>10, <1>11, RequestedStep DEF RequestOK, Untouched, OnlyOne

\* What is captured is what was relayed.
LEMMA CaptureAsyncOK ==
    ASSUME Shape, Requested, NEW r \in Requests, CaptureAsync(r)
    PROVE  Shape' /\ Requested' /\ OnlyOne(r)
<1>1. RequestOK(r) /\ relay[r].at = "capture"
  BY DEF CaptureAsync, Requested
<1>2. PICK h : h = [relay[r] EXCEPT !.at = "end"]
  OBVIOUS
<1>3. /\ h \in RelayState /\ h.at = "end" /\ h.body = relay[r].body
      /\ h.status = relay[r].status /\ h.inference = relay[r].inference
  BY <1>2, ShapeFacts DEF RelayState
<1>4. relay' = [relay EXCEPT ![r] = h]
  BY <1>2 DEF CaptureAsync
<1>5. /\ relay' \in [Requests -> RelayState] /\ relay'[r] = h
      /\ \A q \in Requests \ {r} : relay'[q] = relay[q]
  BY <1>3, <1>4, Replaced DEF Shape
<1>6. capture' \in [Requests -> {"none", "running", "dropped", "stored", "lost"}]
  BY DEF CaptureAsync, Shape
<1>7. Shape' /\ reader' = reader /\ client' = client /\ upstream' = upstream
  BY <1>5, <1>6 DEF Shape, CaptureAsync
<1>8. RefusedIt(r)' \/ AnsweredIt(r)' \/ StreamedIt(r)'
  BY <1>1, <1>3, <1>5, <1>7
  DEF RequestOK, Ended, RefusedIt, AnsweredIt, StreamedIt, InOrder
<1>9. Passed(r)' = Passed(r)
  BY <1>7 DEF Passed
<1>10. ReaderOK(r)'
  BY <1>1, <1>3, <1>5, <1>7, <1>9 DEF RequestOK, ReaderOK, Streaming
<1>11. UpstreamOK(r)' /\ Waits(r)' /\ Streams(r)' /\ Ended(r)'
  BY <1>3, <1>5, <1>8 DEF UpstreamOK, Waits, Streams, Streaming, Ended
<1>. QED
  BY <1>5, <1>7, <1>10, <1>11, RequestedStep DEF RequestOK, Untouched, OnlyOne

\* Steps that leave every request alone.
LEMMA NoRequestOK ==
    ASSUME Requested, UNCHANGED <<relay, reader, upstream, client>>
    PROVE  Requested'
<1>1. \A q \in Requests : Untouched(q)
  BY DEF Untouched
<1>. QED
  BY <1>1, UntouchedOK DEF Requested

\* A client may leave at any time.
LEMMA ClientLeavesOK ==
    ASSUME Shape, Requested, NEW r \in Requests, ClientLeaves(r)
    PROVE  Shape' /\ Requested' /\ OnlyOne(r)
<1>1. RequestOK(r) /\ relay[r].at \in {"dial", "select", "write", "drain"}
  BY DEF ClientLeaves, Requested
<1>2. PICK c : c = [client[r] EXCEPT !.mood = "gone"]
  OBVIOUS
<1>3. /\ c \in ClientState /\ c.body = client[r].body /\ c.status = client[r].status
      /\ c.mood = "gone"
  BY <1>2, ShapeFacts DEF ClientState
<1>4. client' = [client EXCEPT ![r] = c]
  BY <1>2 DEF ClientLeaves
<1>5. /\ client' \in [Requests -> ClientState] /\ client'[r] = c
      /\ \A q \in Requests \ {r} : client'[q] = client[q]
  BY <1>3, <1>4, Replaced DEF Shape
<1>6. Shape' /\ reader' = reader /\ relay' = relay /\ upstream' = upstream
  BY <1>5 DEF Shape, ClientLeaves
<1>7. Passed(r)' = Passed(r) /\ Taken(r)' = Taken(r)
  BY <1>6 DEF Passed, Taken
<1>8. ReaderOK(r)' /\ UpstreamOK(r)'
  BY <1>1, <1>6, <1>7 DEF RequestOK, ReaderOK, UpstreamOK, Streaming
<1>9. Waits(r)' /\ Ended(r)'
  BY <1>1, <1>3, <1>5, <1>6 DEF RequestOK, Waits, Ended
<1>10. Streams(r)'
  BY <1>1, <1>3, <1>5, <1>6, <1>7 DEF RequestOK, Streams, Streaming, InOrder, Limited
<1>. QED
  BY <1>5, <1>6, <1>8, <1>9, <1>10, RequestedStep DEF RequestOK, Untouched, OnlyOne

\* A client may stop reading at any time.
LEMMA ClientStallsOK ==
    ASSUME Shape, Requested, NEW r \in Requests, ClientStalls(r)
    PROVE  Shape' /\ Requested' /\ OnlyOne(r)
<1>1. RequestOK(r) /\ relay[r].at = "write" /\ client[r].mood = "reads"
  BY DEF ClientStalls, Requested
<1>2. PICK c : c = [client[r] EXCEPT !.mood = "stalls"]
  OBVIOUS
<1>3. /\ c \in ClientState /\ c.body = client[r].body /\ c.status = client[r].status
      /\ c.mood = "stalls"
  BY <1>2, ShapeFacts DEF ClientState
<1>4. client' = [client EXCEPT ![r] = c]
  BY <1>2 DEF ClientStalls
<1>5. /\ client' \in [Requests -> ClientState] /\ client'[r] = c
      /\ \A q \in Requests \ {r} : client'[q] = client[q]
  BY <1>3, <1>4, Replaced DEF Shape
<1>6. Shape' /\ reader' = reader /\ relay' = relay /\ upstream' = upstream
  BY <1>5 DEF Shape, ClientStalls
<1>7. Passed(r)' = Passed(r) /\ Taken(r)' = Taken(r)
  BY <1>6 DEF Passed, Taken
<1>8. ReaderOK(r)' /\ UpstreamOK(r)'
  BY <1>1, <1>6, <1>7 DEF RequestOK, ReaderOK, UpstreamOK, Streaming
<1>9. Waits(r)' /\ Ended(r)'
  BY <1>1, <1>6 DEF Waits, Ended
<1>10. Streams(r)'
  BY <1>1, <1>3, <1>5, <1>6, <1>7 DEF RequestOK, Streams, Streaming, InOrder, Limited
<1>. QED
  BY <1>5, <1>6, <1>8, <1>9, <1>10, RequestedStep DEF RequestOK, Untouched, OnlyOne

------------------------------------------------------------------------------
(* Captures *)

\* A step of one request that is in flight, or before the signal, that changes
\* no capture.
LEMMA CapturesKept ==
    ASSUME Captures, NEW r \in Requests, OnlyOne(r), UNCHANGED <<capture, server, cut>>,
           server = "up" \/ relay[r].at \notin {"new", "end"}
    PROVE  Captures'
<1>1. Running' = Running
  BY DEF Running
<1>2. CASE server = "up"
  BY <1>1, <1>2 DEF Captures
<1>3. CASE relay[r].at \notin {"new", "end"}
  <2>1. InFlight' \subseteq InFlight
    BY <1>3 DEF InFlight, OnlyOne, Untouched
  <2>. QED
    BY <1>1, <2>1 DEF Captures
<1>. QED
  BY <1>2, <1>3

\* A capture that begins has a slot, and its handler is in flight until then.
LEMMA CaptureAsyncCaptures ==
    ASSUME Shape, Captures, NEW r \in Requests, CaptureAsync(r), OnlyOne(r)
    PROVE  Captures'
<1>1. /\ relay[r].at = "capture" /\ server' = server /\ cut' = cut /\ r \in InFlight
      /\ capture'[r] \in {"none", "running", "dropped"}
      /\ capture'[r] = "running" => Cardinality(Running) < Slots
      /\ \A q \in Requests \ {r} : capture'[q] = capture[q]
  BY DEF CaptureAsync, InFlight, Shape
<1>2. IsFiniteSet(Running) /\ Cardinality(Running) <= Slots /\ Slots \in Nat
  BY SizesArePositive DEF Captures
<1>3. /\ IsFiniteSet(Running') /\ Cardinality(Running') <= Slots
      /\ Running' \subseteq Running \cup {r}
  <2>1. CASE capture'[r] = "running"
    <3>1. Running' = Running \cup {r}
      BY <1>1, <2>1 DEF Running
    <3>2. IsFiniteSet(Running \cup {r}) /\ Cardinality(Running \cup {r}) <= Cardinality(Running) + 1
      BY <1>2, FS_AddElement, FS_CardinalityType
    <3>3. Cardinality(Running) \in Nat
      BY <1>2, FS_CardinalityType
    <3>4. Cardinality(Running) < Slots
      BY <1>1, <2>1
    <3>5. PICK S : S = Running \cup {r}
      OBVIOUS
    <3>6. /\ IsFiniteSet(S) /\ Cardinality(S) \in Nat
          /\ Cardinality(S) <= Cardinality(Running) + 1
      BY <3>2, <3>5, FS_CardinalityType
    <3>7. Cardinality(S) <= Slots
      BY <1>2, <3>3, <3>4, <3>6
    <3>. QED
      BY <3>1, <3>5, <3>6, <3>7
  <2>2. CASE capture'[r] # "running"
    <3>1. Running' \subseteq Running
      BY <1>1, <2>2 DEF Running
    <3>2. IsFiniteSet(Running') /\ Cardinality(Running') <= Cardinality(Running)
      BY <1>2, <3>1, FS_Subset
    <3>3. Cardinality(Running) \in Nat /\ Cardinality(Running') \in Nat
      BY <1>2, <3>2, FS_CardinalityType
    <3>. QED
      BY <1>2, <3>1, <3>2, <3>3
  <2>. QED
    BY <2>1, <2>2
<1>4. InFlight' \subseteq InFlight
  BY <1>1 DEF InFlight, OnlyOne, Untouched
<1>5. \A q \in Requests : capture'[q] = "lost" => q \in cut
  BY <1>1 DEF Captures
<1>. QED
  BY <1>1, <1>3, <1>4, <1>5 DEF Captures

\* A capture is lost only when Wait has given it up.
LEMMA CapturedOK ==
    ASSUME Shape, Requested, Captures, NEW r \in Requests, Captured(r)
    PROVE  Shape' /\ Requested' /\ Captures'
<1>1. capture' \in [Requests -> {"none", "running", "dropped", "stored", "lost"}]
  BY DEF Captured, Shape
<1>2. Shape' /\ Requested'
  BY <1>1, NoRequestOK DEF Captured, Shape
<1>3. /\ r \in Running /\ server' = server /\ cut' = cut /\ InFlight' = InFlight
      /\ capture'[r] # "running" /\ capture'[r] = "lost" => server = "closed"
      /\ \A q \in Requests \ {r} : capture'[q] = capture[q]
  BY DEF Captured, Running, InFlight, Shape
<1>4. Running' \subseteq Running
  BY <1>3 DEF Running
<1>5. IsFiniteSet(Running') /\ Cardinality(Running') <= Slots
  <2>1. IsFiniteSet(Running) /\ Cardinality(Running) <= Slots /\ Slots \in Nat
    BY SizesArePositive DEF Captures
  <2>2. IsFiniteSet(Running') /\ Cardinality(Running') <= Cardinality(Running)
    BY <1>4, <2>1, FS_Subset
  <2>3. Cardinality(Running) \in Nat /\ Cardinality(Running') \in Nat
    BY <2>1, <2>2, FS_CardinalityType
  <2>. QED
    BY <2>1, <2>2, <2>3
<1>6. \A q \in Requests : capture'[q] = "lost" => q \in cut
  BY <1>3 DEF Captures
<1>. QED
  BY <1>2, <1>3, <1>4, <1>5, <1>6 DEF Captures

------------------------------------------------------------------------------
(* The invariant holds *)

\* The invariant holds before any request.
LEMMA InitIInv == Init => IInv
<1>. SUFFICES ASSUME Init PROVE IInv
  OBVIOUS
<1>1. Shape
  BY DEF Init, Shape, RelayState, ReaderState, NoRead, UpstreamState, ClientState
<1>2. Requested
  <2>1. ASSUME NEW r \in Requests PROVE RequestOK(r)
    <3>1. /\ relay[r].at = "new" /\ ~ relay[r].inference /\ ~ relay[r].headersSent
          /\ relay[r].body = <<>> /\ reader[r] = NoRead
          /\ upstream[r].sent = 0 /\ ~ upstream[r].ended /\ ~ upstream[r].closed
          /\ client[r].status = 0 /\ client[r].body = <<>>
      BY DEF Init
    <3>2. reader[r].at = "none" /\ reader[r].data = <<>> /\ Len(reader[r].data) = 0
      BY <3>1 DEF NoRead
    <3>3. Units[r] \in Nat /\ ReadSize \in Nat
      BY UnitsAreCounts, SizesArePositive
    <3>4. ReaderOK(r)
      BY <3>1, <3>2, <3>3 DEF ReaderOK, Streaming, Passed
    <3>. QED
      BY <3>1, <3>4 DEF RequestOK, UpstreamOK, Waits, Streams, Ended, Streaming
  <2>. QED
    BY <2>1 DEF Requested
<1>3. Captures
  <2>1. Running = {}
    BY DEF Init, Running
  <2>2. IsFiniteSet(Running) /\ Cardinality(Running) = 0
    BY <2>1, FS_EmptySet
  <2>. QED
    BY <2>2, SizesArePositive DEF Captures, Init
<1>. QED
  BY <1>1, <1>2, <1>3 DEF IInv

\* The steps of one request.
LEMMA RequestStep ==
    ASSUME IInv, NEW r \in Requests, Proceed(r) \/ Environment(r)
    PROVE  IInv'
<1>. USE DEF IInv
<1>1. CASE Refuse(r)
  BY <1>1, RefuseOK, CapturesKept DEF Refuse
<1>2. CASE Accept(r)
  BY <1>2, AcceptOK, CapturesKept DEF Accept
<1>3. CASE DialFails(r)
  BY <1>3, DialFailsOK, CapturesKept DEF DialFails
<1>4. CASE Dial(r)
  BY <1>4, DialOK, CapturesKept DEF Dial
<1>5. CASE Read(r)
  <2>1. relay[r].at \notin {"new", "end"}
    BY <1>5 DEF Read, Requested, RequestOK, ReaderOK, Streaming, NoRead
  <2>. QED
    BY <1>5, <2>1, ReadOK, CapturesKept DEF Read
<1>6. CASE ReadAborted(r)
  <2>1. relay[r].at \notin {"new", "end"}
    BY <1>6 DEF ReadAborted, Requested, RequestOK, ReaderOK, Streaming, NoRead
  <2>. QED
    BY <1>6, <2>1, ReadAbortedOK, CapturesKept DEF ReadAborted
<1>7. CASE Take(r)
  BY <1>7, TakeOK, CapturesKept DEF Take
<1>8. CASE Write(r)
  BY <1>8, WriteOK, CapturesKept DEF Write
<1>9. CASE WriteFails(r)
  BY <1>9, WriteFailsOK, CapturesKept DEF WriteFails
<1>10. CASE Idle(r)
  BY <1>10, IdleOK, CapturesKept DEF Idle
<1>11. CASE GiveUp(r)
  BY <1>11, GiveUpOK, CapturesKept DEF GiveUp
<1>12. CASE CaptureAsync(r)
  BY <1>12, CaptureAsyncOK, CaptureAsyncCaptures
<1>13. CASE Captured(r)
  BY <1>13, CapturedOK
<1>14. CASE ClientLeaves(r)
  BY <1>14, ClientLeavesOK, CapturesKept DEF ClientLeaves
<1>15. CASE ClientStalls(r)
  BY <1>15, ClientStallsOK, CapturesKept DEF ClientStalls
<1>. QED
  BY <1>1, <1>2, <1>3, <1>4, <1>5, <1>6, <1>7, <1>8, <1>9, <1>10, <1>11, <1>12,
     <1>13, <1>14, <1>15 DEF Proceed, Environment

\* The steps of main, which wait for every capture between the two that matter:
\* nothing is in flight after Shutdown but what it cut off.
LEMMA ServerStep ==
    ASSUME IInv, Signal \/ ShutdownReturns \/ Stop
    PROVE  IInv'
<1>1. /\ UNCHANGED <<relay, reader, upstream, client, capture>>
      /\ Running' = Running /\ InFlight' = InFlight
      /\ server' \in {"up", "draining", "waiting", "returning", "closed", "exited"}
  BY DEF Signal, ShutdownReturns, Stop, WaitReturns, CloseDatabase, Exit, Running, InFlight
<1>2. Shape' /\ Requested'
  BY <1>1, NoRequestOK DEF IInv, Shape
<1>3. /\ IsFiniteSet(Running) /\ Cardinality(Running) <= Slots
      /\ InFlight \subseteq Requests
  BY DEF IInv, Captures, InFlight
<1>4. Captures'
  <2>1. CASE Signal
    BY <1>1, <1>3, <2>1 DEF Signal, IInv, Captures
  <2>2. CASE ShutdownReturns
    BY <1>1, <1>3, <2>2 DEF ShutdownReturns, IInv, Captures
  <2>3. CASE WaitReturns
    BY <1>1, <1>3, <2>3 DEF WaitReturns, IInv, Captures
  <2>4. CASE CloseDatabase
    BY <1>1, <1>3, <2>4 DEF CloseDatabase, IInv, Captures
  <2>5. CASE Exit
    BY <1>1, <1>3, <2>5 DEF Exit, IInv, Captures
  <2>. QED
    BY <2>1, <2>2, <2>3, <2>4, <2>5 DEF Stop
<1>. QED
  BY <1>2, <1>4 DEF IInv

\* Every step keeps the invariant.
LEMMA NextIInv == IInv /\ [Next]_vars => IInv'
<1>1. ASSUME IInv, Next PROVE IInv'
  BY <1>1, RequestStep, ServerStep DEF Next
<1>2. ASSUME IInv, UNCHANGED vars PROVE IInv'
  <2>1. Running' = Running /\ InFlight' = InFlight
    BY <1>2 DEF vars, Running, InFlight
  <2>. QED
    BY <1>2, <2>1, NoRequestOK DEF vars, IInv, Shape, Captures
<1>. QED
  BY <1>1, <1>2

\* What every state of the relay has.
THEOREM AlwaysIInv == Spec => []IInv
BY InitIInv, NextIInv, PTL DEF Spec

------------------------------------------------------------------------------
(* Theorems *)

\* The bodies that an answer can have.
LEMMA BodyForms ==
    ASSUME IInv, NEW r \in Requests
    PROVE  /\ IsBody(relay[r].body) /\ Len(relay[r].body) <= Limit
           /\ IsBody(client[r].body)
<1>1. /\ RequestOK(r) /\ relay[r].at \in {"new", "dial", "select", "write", "drain", "capture", "end"}
      /\ relay[r].body \in Seq(Nat) /\ client[r].body \in Seq(Nat)
      /\ Limit \in Nat \ {0}
  BY ShapeFacts DEF IInv, Requested, RelayState
<1>2. IsBody(<<>>) /\ Len(<<>>) = 0
  <2>1. <<>> \in Seq(Nat) /\ InOrder(<<>>)
    BY DEF InOrder
  <2>. QED
    BY <2>1, InOrderIsPrefix DEF IsBody
<1>3. IsBody(<<Error>>) /\ Len(<<Error>>) = 1
  BY DEF IsBody
<1>4. \A s \in Seq(Nat) : InOrder(s) => IsBody(s)
  BY InOrderIsPrefix DEF IsBody
<1>5. CASE relay[r].at \in {"new", "dial"}
  BY <1>1, <1>2, <1>5 DEF RequestOK, Waits
<1>6. CASE Streaming(r)
  <2>1. InOrder(relay[r].body) /\ InOrder(client[r].body)
    BY <1>1, <1>6 DEF RequestOK, Streams
  <2>2. Len(relay[r].body) = IF relay[r].inference THEN Limited(Taken(r)) ELSE 0
    BY <1>1, <1>6 DEF RequestOK, Streams
  <2>3. Taken(r) \in Nat
    BY <1>1, ShapeFacts DEF IInv, RequestOK, ReaderOK, Taken, Passed
  <2>4. Len(relay[r].body) <= Limit
    BY <1>1, <2>2, <2>3 DEF Limited
  <2>. QED
    BY <1>1, <1>4, <2>1, <2>4
<1>7. CASE RefusedIt(r)
  BY <1>1, <1>2, <1>3, <1>7 DEF RefusedIt
<1>8. CASE AnsweredIt(r)
  BY <1>1, <1>2, <1>3, <1>8 DEF AnsweredIt
<1>9. CASE StreamedIt(r)
  BY <1>1, <1>4, <1>9 DEF StreamedIt
<1>. QED
  BY <1>1, <1>5, <1>6, <1>7, <1>8, <1>9 DEF RequestOK, Ended, Streaming

\* The types, the limits and the readers: stream never leaves one behind.
THEOREM SpecTypeOK == Spec => []TypeOK
<1>1. IInv => TypeOK
  <2>. SUFFICES ASSUME IInv PROVE TypeOK
    OBVIOUS
  <2>1. ASSUME NEW r \in Requests
        PROVE  /\ relay[r].at \in {"new", "dial", "select", "write", "drain", "capture", "end"}
               /\ relay[r].status \in {0, Upstream, BadGateway}
               /\ IsBody(relay[r].body) /\ Len(relay[r].body) <= Limit
               /\ reader[r].at \in {"none", "reading", "ready"}
               /\ Len(reader[r].data) <= ReadSize
               /\ relay[r].at \in {"select", "drain"} <=> reader[r].at # "none"
               /\ upstream[r].sent \in 0 .. Units[r]
               /\ client[r].status \in {0, Refused, Upstream, BadGateway}
               /\ IsBody(client[r].body)
               /\ capture[r] \in {"none", "running", "dropped", "stored", "lost"}
    <3>1. /\ relay[r] \in RelayState /\ reader[r] \in ReaderState /\ client[r] \in ClientState
          /\ capture[r] \in {"none", "running", "dropped", "stored", "lost"}
          /\ upstream[r].sent \in Nat /\ Units[r] \in Nat
      BY <2>1, ShapeFacts DEF IInv, Shape
    <3>2. ReaderOK(r)
      BY <2>1 DEF IInv, Requested, RequestOK
    <3>3. /\ IsBody(relay[r].body) /\ Len(relay[r].body) <= Limit
          /\ IsBody(client[r].body)
      BY <2>1, BodyForms
    <3>4. /\ relay[r].at \in {"new", "dial", "select", "write", "drain", "capture", "end"}
          /\ relay[r].status \in {0, Upstream, BadGateway}
          /\ reader[r].at \in {"none", "reading", "ready"}
          /\ client[r].status \in {0, Refused, Upstream, BadGateway}
      BY <3>1 DEF RelayState, ReaderState, ClientState
    <3>5. /\ relay[r].at \in {"select", "drain"} <=> reader[r].at # "none"
          /\ Len(reader[r].data) <= ReadSize /\ upstream[r].sent <= Units[r]
      BY <3>2 DEF ReaderOK
    <3>6. upstream[r].sent \in 0 .. Units[r]
      BY <3>1, <3>5
    <3>. QED
      BY <3>1, <3>3, <3>4, <3>5, <3>6
  <2>. QED
    BY <2>1 DEF IInv, Shape, Captures, TypeOK
<1>. QED
  BY <1>1, AlwaysIInv, PTL

\* A client that stays until its upstream's response ends without an idle timeout
\* has all of it: whatever stream reads it writes before it looks at the error.
THEOREM SpecRelaysAll == Spec => []RelaysAll
<1>1. IInv => RelaysAll
  <2>. SUFFICES ASSUME IInv, NEW r \in Requests, relay[r].at \in {"capture", "end"},
                       upstream[r].ended, ~ upstream[r].closed, client[r].mood # "gone"
                PROVE  client[r].body = UnitsFrom(1, upstream[r].sent)
    BY DEF RelaysAll
  <2>1. client[r].body \in Seq(Nat) /\ Ended(r)
    BY ShapeFacts DEF IInv, Requested, RequestOK
  <2>2. StreamedIt(r)
    BY <2>1 DEF Ended, RefusedIt, AnsweredIt
  <2>3. InOrder(client[r].body) /\ Len(client[r].body) = upstream[r].sent
    BY <2>2 DEF StreamedIt
  <2>. QED
    BY <2>1, <2>3, InOrderIsPrefix
<1>. QED
  BY <1>1, AlwaysIInv, PTL

\* As far as any limit goes, nothing and the proxy's own answer are prefixes of it.
LEMMA AnswerPrefix ==
    ASSUME NEW n \in Nat \ {0}, NEW s \in {<<>>, <<Error>>}
    PROVE  IsPrefix(SubSeq(s, 1, Min({n, Len(s)})), <<Error>>)
<1>1. Len(s) \in Int /\ n \in Int /\ Len(s) = IF s = <<>> THEN 0 ELSE 1
  OBVIOUS
<1>2. PICK m \in Int : m = Min({n, Len(s)})
  <2>1. Min({n, Len(s)}) = IF n <= Len(s) THEN n ELSE Len(s)
    BY <1>1, MinOfTwo, Zenon
  <2>. QED
    BY <1>1, <2>1
<1>3. m = Len(s)
  <2>1. Min({n, Len(s)}) = IF n <= Len(s) THEN n ELSE Len(s)
    BY <1>1, MinOfTwo, Zenon
  <2>. QED
    BY <1>1, <1>2, <2>1
<1>4. CASE s = <<>>
  <2>1. IsPrefix(SubSeq(<<>>, 1, 0), <<Error>>)
    BY DEF IsPrefix, Error
  <2>2. m = 0
    BY <1>1, <1>3, <1>4
  <2>. QED
    BY <1>2, <1>4, <2>1, <2>2, Zenon
<1>5. CASE s = <<Error>>
  <2>1. IsPrefix(SubSeq(<<Error>>, 1, 1), <<Error>>)
    BY DEF IsPrefix, Error
  <2>2. m = 1
    BY <1>1, <1>3, <1>5
  <2>. QED
    BY <1>2, <1>5, <2>1, <2>2, Zenon
<1>. QED
  BY <1>4, <1>5

\* The captured exchange is the one the client saw: its status, and its units as
\* far as the limit goes.
THEOREM SpecCapturedAsRelayed == Spec => []CapturedAsRelayed
<1>1. IInv => CapturedAsRelayed
  <2>. SUFFICES ASSUME IInv, NEW r \in Requests, relay[r].at \in {"capture", "end"},
                       relay[r].inference
                PROVE  /\ client[r].status \in {0, relay[r].status}
                       /\ client[r].status = 0 => client[r].mood = "gone"
                       /\ IsPrefix(SubSeq(client[r].body, 1, Min({Limit, Len(client[r].body)})),
                                   relay[r].body)
    BY DEF CapturedAsRelayed
  <2>1. /\ client[r].body \in Seq(Nat) /\ relay[r].body \in Seq(Nat)
        /\ Ended(r) /\ Limit \in Nat \ {0}
    BY ShapeFacts DEF IInv, Requested, RequestOK
  <2>2. AnsweredIt(r) \/ StreamedIt(r)
    BY <2>1 DEF Ended, RefusedIt
  <2>3. CASE StreamedIt(r)
    <3>1. IsPrefix(SubSeq(client[r].body, 1, Min({Limit, Len(client[r].body)})),
                   relay[r].body)
      BY <2>1, <2>3, InOrderPrefix DEF StreamedIt
    <3>. QED
      BY <2>3, <3>1 DEF StreamedIt
  <2>4. CASE AnsweredIt(r)
    <3>1. IsPrefix(SubSeq(client[r].body, 1, Min({Limit, Len(client[r].body)})),
                   relay[r].body)
      <4>1. client[r].body \in {<<>>, <<Error>>} /\ relay[r].body = <<Error>>
        BY <2>4 DEF AnsweredIt
      <4>. QED
        BY <2>1, <4>1, AnswerPrefix
    <3>. QED
      BY <2>4, <3>1 DEF AnsweredIt, BadGateway
  <2>. QED
    BY <2>2, <2>3, <2>4
<1>. QED
  BY <1>1, AlwaysIInv, PTL

\* When main has closed the database, the only captures not stored are those of
\* requests that Shutdown cut off: their handlers may count a capture after Wait.
THEOREM SpecCapturesOutliveShutdown == Spec => []CapturesOutliveShutdown
<1>1. IInv => CapturesOutliveShutdown
  BY DEF IInv, Captures, Running, CapturesOutliveShutdown
<1>. QED
  BY <1>1, AlwaysIInv, PTL

==============================================================================
