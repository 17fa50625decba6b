--------------------------- MODULE ToolCallRegister ---------------------------
(***************************************************************************)
(* What the proxy promises of tool calls, without a cache, a database,     *)
(* locks or restarts: a call is known with one issuer and at most one      *)
(* result, the first that was recorded, from the capture that registers it *)
(* until it is older than the retention; only then may it be forgotten.    *)
(* ProxyCapture implements this.                                           *)
(***************************************************************************)
EXTENDS ProxyTables

CONSTANT Retention  \* RETENTION_DAYS

VARIABLES
    now,   \* the clock
    calls  \* the origins of the known calls

Init ==
    /\ now = 0
    /\ calls = NoRows

\* o is an origin of k: by an exchange that issued k, with a result that an
\* exchange carried.
IsOriginOf(k, o) ==
    /\ \E e \in Exchanges : k \in e.calls /\ o.span = ModelId(e) /\ o.end = e.end
    /\ o.hasResult => \E e \in Exchanges : k \in ToSet(e.results) /\ o.first = e.start

\* Only calls older than the retention are forgotten.
ForgetsOnlyOld ==
    \A k \in DOMAIN calls \ DOMAIN calls' : calls[k].created < now - Retention

Answered(o, e) == [o EXCEPT !.first = e.start, !.hasResult = TRUE]

\* The capture of e: a known call may get its first result from e, and calls
\* become known that were not.
Capture(e) ==
    /\ ForgetsOnlyOld
    /\ \A k \in DOMAIN calls' :
          IF k \in DOMAIN calls
          THEN \/ calls'[k] = calls[k]
               \/ /\ ~ calls[k].hasResult
                  /\ k \in ToSet(e.results)
                  /\ calls'[k] = Answered(calls[k], e)
          ELSE IsOriginOf(k, calls'[k])
    /\ UNCHANGED now

Forget ==
    /\ ForgetsOnlyOld
    /\ calls' = Restrict(calls, DOMAIN calls')
    /\ UNCHANGED now

Tick ==
    /\ now' = now + 1
    /\ UNCHANGED calls

Next == (\E e \in Exchanges : Capture(e)) \/ Forget \/ Tick

Spec == Init /\ [][Next]_<<now, calls>>

==============================================================================
