---------------------------- MODULE LamportClock ----------------------------
(***************************************************************************)
(* The node-wide Lamport clock of internal/cluster/router.go (type         *)
(* protocol.Lamport).  One clock is shared by every table goroutine of a   *)
(* node, by the REPL goroutine (ProposeLocal, DiscoverAndAttach) and by    *)
(* JoinTableRemote.  TickLocal is one atomic add; TickRemote is a loop of  *)
(* an atomic load, a local computation and a compare-and-swap, so two      *)
(* callers interleave between its steps.  The uint64 is kept at a width   *)
(* of W bits: every store is taken modulo 2^W, as the hardware does at 64. *)
(***************************************************************************)
EXTENDS Naturals, Sequences, FiniteSets

CONSTANTS
  Caller,     \* goroutines that share the clock
  W,          \* width of the counter in bits (64 in the code)
  Remote,     \* Lamport values a received message may carry
  MaxCalls    \* calls per caller, bounds the model

ASSUME W \in Nat \ {0} /\ MaxCalls \in Nat
ASSUME Remote \subseteq 0 .. (2^W - 1)

Modulus == 2^W

VARIABLES
  v,        \* the clock word l.v
  pc,       \* per caller: "idle", "load" (about to load) or "cas"
  rem,      \* per caller: the remote argument of a TickRemote in progress
  cur,      \* per caller: the value loaded by TickRemote (local cur)
  calls,    \* per caller: calls made so far (bound)
  seen,     \* ghost: per caller, the largest value returned by any call
            \* that completed before this call was invoked
  ret,      \* ghost: per caller, the value the last completed call returned
  maxRet    \* ghost: the largest value any completed call returned

vars == <<v, pc, rem, cur, calls, seen, ret, maxRet>>

NoValue == Modulus   \* not a clock value: "nothing returned yet"

\* The value TickRemote tries to install after loading c (the if/else).
MergeNext(c, r) == (IF r >= c THEN r + 1 ELSE c + 1) % Modulus

\* A call by caller p returns value x.
Return(p, x) ==
  /\ pc' = [pc EXCEPT ![p] = "idle"]
  /\ ret' = [ret EXCEPT ![p] = x]
  /\ maxRet' = IF maxRet = NoValue \/ x > maxRet THEN x ELSE maxRet

\* TickLocal: atomic.AddUint64(&l.v, 1) returns the new value.
TickLocal(p) ==
  /\ pc[p] = "idle"
  /\ calls[p] < MaxCalls
  /\ v' = (v + 1) % Modulus
  /\ calls' = [calls EXCEPT ![p] = @ + 1]
  /\ seen' = [seen EXCEPT ![p] = maxRet]
  /\ Return(p, (v + 1) % Modulus)
  /\ UNCHANGED <<rem, cur>>

\* TickRemote(remote) is invoked.
InvokeRemote(p, r) ==
  /\ pc[p] = "idle"
  /\ calls[p] < MaxCalls
  /\ pc' = [pc EXCEPT ![p] = "load"]
  /\ rem' = [rem EXCEPT ![p] = r]
  /\ calls' = [calls EXCEPT ![p] = @ + 1]
  /\ seen' = [seen EXCEPT ![p] = maxRet]
  /\ UNCHANGED <<v, cur, ret, maxRet>>

\* cur := atomic.LoadUint64(&l.v)
Load(p) ==
  /\ pc[p] = "load"
  /\ cur' = [cur EXCEPT ![p] = v]
  /\ pc' = [pc EXCEPT ![p] = "cas"]
  /\ UNCHANGED <<v, rem, calls, seen, ret, maxRet>>

\* The same step with a plain store in place of the compare-and-swap.
CompareAndSwapPlainStore(p) ==
  /\ pc[p] = "cas"
  /\ v' = MergeNext(cur[p], rem[p])
  /\ Return(p, MergeNext(cur[p], rem[p]))
  /\ UNCHANGED <<rem, cur, calls, seen>>

\* A failed compare-and-swap that retries with the value it loaded before.
CompareAndSwapNoReload(p) ==
  /\ pc[p] = "cas"
  /\ \/ /\ v = cur[p]
        /\ v' = MergeNext(cur[p], rem[p])
        /\ Return(p, MergeNext(cur[p], rem[p]))
        /\ UNCHANGED <<rem, cur, calls, seen>>
     \/ /\ v # cur[p]
        /\ UNCHANGED vars

\* if atomic.CompareAndSwapUint64(&l.v, cur, next) { return next }, else
\* loop back to the load.
CompareAndSwap(p) ==
  /\ pc[p] = "cas"
  /\ \/ /\ v = cur[p]
        /\ v' = MergeNext(cur[p], rem[p])
        /\ Return(p, MergeNext(cur[p], rem[p]))
        /\ UNCHANGED <<rem, cur, calls, seen>>
     \/ /\ v # cur[p]
        /\ pc' = [pc EXCEPT ![p] = "load"]
        /\ UNCHANGED <<v, rem, cur, calls, seen, ret, maxRet>>

Init ==
  /\ v = 0
  /\ pc = [p \in Caller |-> "idle"]
  /\ rem = [p \in Caller |-> 0]
  /\ cur = [p \in Caller |-> 0]
  /\ calls = [p \in Caller |-> 0]
  /\ seen = [p \in Caller |-> NoValue]
  /\ ret = [p \in Caller |-> NoValue]
  /\ maxRet = NoValue

Next ==
  \E p \in Caller :
    \/ TickLocal(p)
    \/ \E r \in Remote : InvokeRemote(p, r)
    \/ Load(p)
    \/ CompareAndSwap(p)

\* Each goroutine keeps running its loop, so every enabled step is taken.
Spec == Init /\ [][Next]_vars /\ \A p \in Caller : WF_vars(Load(p) \/ CompareAndSwap(p))

-----------------------------------------------------------------------------
\* Lamport order across goroutines: a tick (local or remote) returns a value
\* greater than every value returned by a tick that completed before it was
\* invoked, however TickLocal and the load/CAS steps of TickRemote interleave.
\* This is what makes two stamps taken one after the other on different
\* goroutines ordered, and what a lost update in TickRemote would break.
TicksOrdered ==
  \A p \in Caller :
    pc[p] = "idle" /\ ret[p] # NoValue /\ seen[p] # NoValue => ret[p] > seen[p]

\* TickRemote does not spin forever: every invoked call eventually returns,
\* unless other goroutines keep winning the compare-and-swap (they cannot
\* forever, since every caller's calls are bounded).
TickRemoteReturns == \A p \in Caller : pc[p] = "load" ~> pc[p] = "idle"
=============================================================================
