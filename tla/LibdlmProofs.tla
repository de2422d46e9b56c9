---------------------------- MODULE LibdlmProofs ----------------------------
(***************************************************************************)
(* The safety properties of Libdlm, for every number of threads, requests, *)
(* blocking ASTs and openings of the lockspace, when pthread_cond_wait     *)
(* returns after a signal only.                                            *)
(***************************************************************************)
EXTENDS Libdlm, TLAPS

\* Completions and blocking ASTs of l that have not been read
Casts(q, l) == {i \in DOMAIN q : q[i].type = "cast" /\ q[i].lock = l}
Basts(q, l) == {i \in DOMAIN q : q[i].type = "bast" /\ q[i].lock = l}

\* The AST that signals t is running: it is on top of the stack.
Signals(st, t) == st # <<>> /\ st[Len(st)].type = "sync" /\ st[Len(st)].lock = t

\* The device and the receive thread while the lockspace is open, being closed, closed
Lifetime ==
    /\ fd <=> (default_ls \/ cancel)
    /\ default_ls => tid /\ ~cancel
    /\ tid => fd
    /\ ~tid => stack = <<>> /\ pc["recv"] = "idle"
    /\ ~fd => results = <<>> /\ \A l \in Locks : op[l] = "none"
    /\ ~default_ls => \A t \in Threads : ~InCall(t)

\* Only one AST signals at a time, and the receive thread makes one call at a time.
StackRules(st, p) ==
    /\ \A i \in DOMAIN st : st[i].type = "sync" => i = Len(st)
    /\ \A i, j \in DOMAIN st : st[i].type = "loop" /\ st[j].type = "loop" => i = j
    /\ \A i \in DOMAIN st : st[i].type = "loop" => p = "loop"

\* A request is with the kernel, or answered and in the queue, or read; never twice.
Once(o, q, l) ==
    /\ o # "none" => Casts(q, l) = {}
    /\ \A i, j \in Casts(q, l) : i = j

\* What can be read about a request is the kernel's last answer, but for blocking ASTs
\* that were sent before it.
Fresh(q, a, l) ==
    /\ \A i \in Casts(q, l) : q[i].status = a
    /\ \A i \in Basts(q, l) : (\A j \in Casts(q, l) : j < i) => q[i].status = a

\* The handshake between a thread and the AST that signals it
Handshake(t, p, m, st, o, q, sb, a) ==
    /\ p \in {"idle", "returned"} => o = "none" /\ Casts(q, t) = {} /\ ~Signals(st, t) /\ m = "free"
    /\ p = "written" => m = "caller"
    /\ p = "waiting" => m # "caller"
    /\ p = "woken" => m # "caller" /\ (Signals(st, t) => st[Len(st)].at = "unlock")
    /\ m = "ast" => Signals(st, t) /\ st[Len(st)].at # "lock"
    /\ Signals(st, t) => /\ st[Len(st)].at = "lock" => m # "ast"
                         /\ st[Len(st)].at = "signal" => m = "ast" /\ p = "waiting"
                         /\ st[Len(st)].at = "unlock" => m = "ast" /\ p = "woken"
    /\ Signals(st, t) \/ p \in {"woken", "returned"} => o = "none" /\ Casts(q, t) = {} /\ sb = a

\* The call of an AST reads results until its own is there.
Loop(p, o, q, sb, a) ==
    /\ p = "loop" => \/ sb = EINPROG
                     \/ o = "none" /\ Casts(q, "recv") = {} /\ sb = a
    /\ p = "returned" => o = "none" /\ Casts(q, "recv") = {} /\ sb = a
    /\ Basts(q, "recv") = {}

Requests == \A c \in Callers : Once(op[c], results, c) /\ Fresh(results, answer[c], c)

Handshakes ==
    \A t \in Threads : Handshake(t, pc[t], mutex[t], stack, op[t], results, sb_status[t], answer[t])

Call ==
    /\ Loop(pc["recv"], op["recv"], results, sb_status["recv"], answer["recv"])
    /\ tid /\ pc["recv"] # "loop" => op["recv"] = "none" /\ Casts(results, "recv") = {}

Inv == TypeOK /\ Lifetime /\ StackRules(stack, pc["recv"]) /\ Requests /\ Handshakes /\ Call

-----------------------------------------------------------------------------
(* The queue of results *)

\* A result for another lock changes nothing.
LEMMA AppendOther ==
    ASSUME NEW q \in Seq(Results), NEW r \in Results, NEW l, r.lock # l
    PROVE  /\ Casts(Append(q, r), l) = Casts(q, l)
           /\ Basts(Append(q, r), l) = Basts(q, l)
           /\ \A a : Fresh(q, a, l) => Fresh(Append(q, r), a, l)
           /\ \A o : Once(o, q, l) => Once(o, Append(q, r), l)
<1> DEFINE p == Append(q, r)
<1>1. /\ DOMAIN q = 1 .. Len(q) /\ DOMAIN p = 1 .. (Len(q) + 1) /\ Len(q) \in Nat
      /\ \A i \in 1 .. Len(q) : p[i] = q[i]
      /\ p[Len(q) + 1] = r
  OBVIOUS
<1> HIDE DEF p
<1>2. Casts(p, l) = Casts(q, l) /\ Basts(p, l) = Basts(q, l)
  BY <1>1 DEF Casts, Basts
<1>3. \A i \in Casts(q, l) \cup Basts(q, l) : p[i] = q[i]
  BY <1>1 DEF Casts, Basts
<1>4. /\ \A a : Fresh(q, a, l) => Fresh(p, a, l)
      /\ \A o : Once(o, q, l) => Once(o, p, l)
  BY <1>2, <1>3 DEF Fresh, Once
<1> QED
  BY <1>2, <1>4 DEF p

\* The answer to a request for which there is no other
LEMMA AppendCast ==
    ASSUME NEW q \in Seq(Results), NEW l, NEW a, Casts(q, l) = {},
           [type |-> "cast", lock |-> l, status |-> a] \in Results
    PROVE  LET p == Append(q, [type |-> "cast", lock |-> l, status |-> a])
           IN  Once("none", p, l) /\ Fresh(p, a, l) /\ Basts(p, l) = Basts(q, l)
<1> DEFINE r == [type |-> "cast", lock |-> l, status |-> a]
           p == Append(q, r)
<1>1. /\ DOMAIN q = 1 .. Len(q) /\ DOMAIN p = 1 .. (Len(q) + 1) /\ Len(q) \in Nat
      /\ \A i \in 1 .. Len(q) : p[i] = q[i]
      /\ p[Len(q) + 1] = r
  OBVIOUS
<1> HIDE DEF p
<1>2. Casts(p, l) = {Len(q) + 1} /\ Basts(p, l) = Basts(q, l)
  BY <1>1 DEF Casts, Basts
<1>3. \A i \in Basts(q, l) : ~(Len(q) + 1 < i)
  BY <1>1 DEF Basts
<1>4. Once("none", p, l) /\ Fresh(p, a, l)
  BY <1>1, <1>2, <1>3 DEF Fresh, Once
<1> QED
  BY <1>2, <1>4 DEF p

\* A blocking AST carries the last answer.
LEMMA AppendBast ==
    ASSUME NEW q \in Seq(Results), NEW l, NEW a, Fresh(q, a, l),
           [type |-> "bast", lock |-> l, status |-> a] \in Results
    PROVE  LET p == Append(q, [type |-> "bast", lock |-> l, status |-> a])
           IN  /\ Casts(p, l) = Casts(q, l) /\ Fresh(p, a, l)
               /\ \A o : Once(o, q, l) => Once(o, p, l)
<1> DEFINE r == [type |-> "bast", lock |-> l, status |-> a]
           p == Append(q, r)
<1>1. /\ DOMAIN q = 1 .. Len(q) /\ DOMAIN p = 1 .. (Len(q) + 1) /\ Len(q) \in Nat
      /\ \A i \in 1 .. Len(q) : p[i] = q[i]
      /\ p[Len(q) + 1] = r
  OBVIOUS
<1> HIDE DEF p
<1>2. Casts(p, l) = Casts(q, l) /\ Basts(p, l) = Basts(q, l) \cup {Len(q) + 1}
  BY <1>1 DEF Casts, Basts
<1>3. \A i \in Casts(q, l) \cup Basts(q, l) : p[i] = q[i]
  BY <1>1 DEF Casts, Basts
<1>4. Fresh(p, a, l) /\ \A o : Once(o, q, l) => Once(o, p, l)
  BY <1>1, <1>2, <1>3 DEF Fresh, Once
<1> QED
  BY <1>2, <1>4 DEF p

\* The first result is read: what is left keeps the rules, and a result that no answer
\* to its lock follows has the last answer.
LEMMA ReadResult ==
    ASSUME NEW q \in Seq(Results), q # <<>>, NEW l
    PROVE  /\ \A o : Once(o, q, l) => Once(o, Tail(q), l)
           /\ \A a : Fresh(q, a, l) => Fresh(Tail(q), a, l)
           /\ Casts(q, l) = {} => Casts(Tail(q), l) = {}
           /\ Basts(q, l) = {} => Basts(Tail(q), l) = {} /\ ~(Head(q).lock = l /\ Head(q).type = "bast")
           /\ \A o : Head(q).lock = l /\ Head(q).type = "cast" /\ Once(o, q, l) =>
                      o = "none" /\ Casts(Tail(q), l) = {}
           /\ Casts(q, l) = {} => ~(Head(q).lock = l /\ Head(q).type = "cast")
           /\ \A a : Head(q).lock = l /\ Casts(Tail(q), l) = {} /\ Fresh(q, a, l) => Head(q).status = a
<1> DEFINE p == Tail(q)
           n == Len(q)
<1>1. /\ n \in Nat /\ n > 0 /\ DOMAIN q = 1 .. n /\ DOMAIN p = 1 .. (n - 1)
      /\ \A i \in 1 .. (n - 1) : p[i] = q[i + 1]
      /\ Head(q) = q[1] /\ q[1] \in Results
  OBVIOUS
<1> HIDE DEF p, n
<1>2. /\ \A i \in Casts(p, l) : i \in 1 .. (n - 1) /\ i + 1 \in Casts(q, l) /\ p[i] = q[i + 1]
      /\ \A i \in Basts(p, l) : i \in 1 .. (n - 1) /\ i + 1 \in Basts(q, l) /\ p[i] = q[i + 1]
  BY <1>1 DEF Casts, Basts
<1>3. \A j \in Casts(q, l) : j \in Nat /\ (j = 1 \/ j - 1 \in Casts(p, l))
  BY <1>1 DEF Casts
<1>4. /\ Head(q).lock = l /\ Head(q).type = "cast" => 1 \in Casts(q, l)
      /\ Head(q).lock = l /\ Head(q).type = "bast" => 1 \in Basts(q, l)
  BY <1>1 DEF Casts, Basts
<1>5. \A o : Once(o, q, l) => Once(o, p, l)
  BY <1>2 DEF Once
<1>6. \A a : Fresh(q, a, l) => Fresh(p, a, l)
  <2> SUFFICES ASSUME NEW a, Fresh(q, a, l) PROVE Fresh(p, a, l)
    OBVIOUS
  <2>1. \A i \in Casts(p, l) : p[i].status = a
    BY <1>2 DEF Fresh
  <2>2. ASSUME NEW i \in Basts(p, l), \A j \in Casts(p, l) : j < i
        PROVE  p[i].status = a
    <3>1. \A j \in Casts(q, l) : j < i + 1
      BY <2>2, <1>2, <1>3
    <3> QED
      BY <3>1, <1>2 DEF Fresh
  <2> QED
    BY <2>1, <2>2 DEF Fresh
<1>7. /\ Casts(q, l) = {} => Casts(p, l) = {}
      /\ Basts(q, l) = {} => Basts(p, l) = {} /\ ~(Head(q).lock = l /\ Head(q).type = "bast")
      /\ Casts(q, l) = {} => ~(Head(q).lock = l /\ Head(q).type = "cast")
  BY <1>2, <1>4
<1>8. ASSUME Head(q).lock = l, Head(q).type = "cast", NEW o, Once(o, q, l)
      PROVE  o = "none" /\ Casts(p, l) = {}
  <2>1. 1 \in Casts(q, l) /\ o = "none"
    BY <1>4, <1>8 DEF Once
  <2>2. \A i \in Casts(p, l) : i + 1 = 1
    BY <2>1, <1>2, <1>8 DEF Once
  <2> QED
    BY <2>1, <2>2, <1>2
<1>9. ASSUME NEW a, Head(q).lock = l, Casts(p, l) = {}, Fresh(q, a, l)
      PROVE  Head(q).status = a
  <2>1. CASE Head(q).type = "cast"
    BY <2>1, <1>1, <1>4, <1>9 DEF Fresh
  <2>2. CASE Head(q).type = "bast"
    <3>1. Casts(q, l) = {}
      BY <2>2, <1>1, <1>3, <1>9 DEF Casts
    <3> QED
      BY <3>1, <2>2, <1>1, <1>4, <1>9 DEF Fresh
  <2> QED
    BY <2>1, <2>2, <1>1 DEF Results
<1> QED
  BY <1>5, <1>6, <1>7, <1>8, <1>9 DEF p

\* The first result answers the request of l: it is the only answer, and the last.
LEMMA ReadCast ==
    ASSUME NEW q, NEW l, NEW o, NEW a, q \in Seq(Results), q # <<>>,
           Once(o, q, l), Fresh(q, a, l), Head(q).lock = l, Head(q).type = "cast"
    PROVE  Casts(q, l) # {} /\ o = "none" /\ Casts(Tail(q), l) = {} /\ Head(q).status = a
  BY ReadResult

\* The first result is a blocking AST of l, and no answer to l waits to be read.
LEMMA ReadBast ==
    ASSUME NEW q, NEW l, NEW a, q \in Seq(Results), q # <<>>, Fresh(q, a, l),
           Head(q).lock = l, Head(q).type = "bast", Casts(q, l) = {}
    PROVE  Casts(Tail(q), l) = {} /\ Head(q).status = a
  BY ReadResult

-----------------------------------------------------------------------------
(* The stack of the receive thread *)

\* A call from a thread that is not in the middle of sync_ast_routine
LEMMA PushFrame ==
    ASSUME NEW st, NEW f, NEW p, NEW pp, st \in Seq(Frames), f \in Frames, StackRules(st, p),
           \A t : ~Signals(st, t),
           f.type # "loop" => pp = p,
           f.type = "loop" => p # "loop" /\ pp = "loop"
    PROVE  /\ Append(st, f) \in Seq(Frames) /\ StackRules(Append(st, f), pp)
           /\ Append(st, f) # <<>> /\ Append(st, f)[Len(Append(st, f))] = f
           /\ \A t : Signals(Append(st, f), t) <=> f.type = "sync" /\ f.lock = t
<1> DEFINE s == Append(st, f)
<1>1. /\ s \in Seq(Frames) /\ s # <<>> /\ Len(st) \in Nat /\ Len(s) = Len(st) + 1
      /\ DOMAIN st = 1 .. Len(st) /\ DOMAIN s = 1 .. (Len(st) + 1)
      /\ \A i \in 1 .. Len(st) : s[i] = st[i]
      /\ s[Len(st) + 1] = f
  OBVIOUS
<1>2. \A i \in 1 .. Len(st) : st[i].type # "sync"
  <2> SUFFICES ASSUME NEW i \in 1 .. Len(st), st[i].type = "sync" PROVE FALSE
    BY ZenonT(30)
  <2>1. i = Len(st)
    BY <1>1, ZenonT(30) DEF StackRules
  <2>2. Signals(st, st[i].lock)
    BY <2>1, <1>1 DEF Signals
  <2> QED
    BY <2>2
<1> HIDE DEF s
<1>3. StackRules(s, pp)
  <2>1. \A i \in DOMAIN s : s[i].type = "sync" => i = Len(s)
    BY <1>1, <1>2
  <2>2. \A i \in 1 .. Len(st) : st[i].type = "loop" => p = "loop"
    BY <1>1 DEF StackRules
  <2>3. \A i, j \in DOMAIN s : s[i].type = "loop" /\ s[j].type = "loop" => i = j
    <3> SUFFICES ASSUME NEW i \in DOMAIN s, NEW j \in DOMAIN s, s[i].type = "loop", s[j].type = "loop"
                 PROVE  i = j
      OBVIOUS
    <3>1. CASE i \in 1 .. Len(st) /\ j \in 1 .. Len(st)
      BY <3>1, <1>1 DEF StackRules
    <3>2. CASE ~(i \in 1 .. Len(st) /\ j \in 1 .. Len(st))
      BY <3>2, <1>1, <2>2
    <3> QED
      BY <3>1, <3>2
  <2>4. \A i \in DOMAIN s : s[i].type = "loop" => pp = "loop"
    BY <1>1, <2>2
  <2> QED
    BY <2>1, <2>3, <2>4 DEF StackRules
<1>4. \A t : Signals(s, t) <=> f.type = "sync" /\ f.lock = t
  BY <1>1 DEF Signals
<1> QED
  BY <1>1, <1>3, <1>4 DEF s

\* A return.  The caller is not in the middle of sync_ast_routine, and is not the loop
\* if that is what returns.
LEMMA PopFrame ==
    ASSUME NEW st \in Seq(Frames), st # <<>>, NEW p, NEW pp, StackRules(st, p),
           pp = p \/ st[Len(st)].type = "loop"
    PROVE  /\ SubSeq(st, 1, Len(st) - 1) \in Seq(Frames)
           /\ StackRules(SubSeq(st, 1, Len(st) - 1), pp)
           /\ \A t : ~Signals(SubSeq(st, 1, Len(st) - 1), t)
<1> DEFINE s == SubSeq(st, 1, Len(st) - 1)
<1>1. Len(st) \in Nat /\ Len(st) > 0 /\ DOMAIN st = 1 .. Len(st)
  OBVIOUS
<1>2. /\ s \in Seq(Frames) /\ Len(s) = Len(st) - 1 /\ DOMAIN s = 1 .. (Len(st) - 1)
      /\ \A i \in 1 .. (Len(st) - 1) : s[i] = st[i]
      /\ s # <<>> => Len(s) \in 1 .. (Len(st) - 1)
  BY <1>1
<1> HIDE DEF s
<1>3. \A i \in DOMAIN s : s[i].type # "sync"
  BY <1>1, <1>2 DEF StackRules
<1>4. \A i \in DOMAIN s : s[i].type = "loop" => pp = "loop"
  <2> SUFFICES ASSUME NEW i \in DOMAIN s, s[i].type = "loop" PROVE pp = "loop"
    OBVIOUS
  <2>1. i \in DOMAIN st /\ i # Len(st) /\ st[i].type = "loop" /\ Len(st) \in DOMAIN st
    BY <1>1, <1>2
  <2>2. st[Len(st)].type # "loop"
    BY <2>1 DEF StackRules
  <2> QED
    BY <2>1, <2>2 DEF StackRules
<1>5. \A i, j \in DOMAIN s : s[i].type = "loop" /\ s[j].type = "loop" => i = j
  BY <1>1, <1>2 DEF StackRules
<1>6. \A t : ~Signals(s, t)
  BY <1>2, <1>3 DEF Signals
<1> QED
  BY <1>2, <1>3, <1>4, <1>5, <1>6 DEF s, StackRules

\* A step of sync_ast_routine
LEMMA MoveFrame ==
    ASSUME NEW st \in Seq(Frames), st # <<>>, st[Len(st)].type = "sync", NEW p, StackRules(st, p),
           NEW at \in {"lock", "signal", "unlock"}, NEW s, s = [st EXCEPT ![Len(st)].at = at]
    PROVE  /\ s \in Seq(Frames) /\ StackRules(s, p) /\ s # <<>> /\ s[Len(s)].at = at
           /\ \A t : Signals(s, t) <=> Signals(st, t)
<1> DEFINE f == [st[Len(st)] EXCEPT !.at = at]
<1>1. Len(st) \in Nat /\ Len(st) > 0 /\ DOMAIN st = 1 .. Len(st) /\ st[Len(st)] \in Frames
  OBVIOUS
<1>2. f \in Frames /\ f.type = "sync" /\ f.lock = st[Len(st)].lock /\ f.at = at
  BY <1>1 DEF Frames
<1>3. /\ DOMAIN s = 1 .. Len(st) /\ s[Len(st)] = f
      /\ \A i \in 1 .. Len(st) : i # Len(st) => s[i] = st[i]
  BY <1>1
<1> HIDE DEF f
<1>4. s \in Seq(Frames) /\ Len(s) = Len(st)
  BY <1>1, <1>2, <1>3
<1>5. s # <<>>
  BY <1>1, <1>4
<1>6. \A i \in DOMAIN s : s[i].type = st[i].type
  BY <1>1, <1>2, <1>3
<1>7. StackRules(s, p)
  BY <1>1, <1>3, <1>4, <1>6 DEF StackRules
<1>8. \A t : Signals(s, t) <=> Signals(st, t)
  BY <1>2, <1>3, <1>4, <1>5 DEF Signals
<1>9. s[Len(s)].at = at
  BY <1>2, <1>3, <1>4
<1> QED
  BY <1>4, <1>5, <1>7, <1>8, <1>9, ZenonT(30)

-----------------------------------------------------------------------------
(* The steps *)

\* A lockspace starts without locks.
LEMMA NoneHeld == [l \in Locks |-> FALSE] \in [Locks -> BOOLEAN]
  BY Zenon

\* The invariant holds before the lockspace is opened.
LEMMA InitInv == Init => Inv
<1> SUFFICES ASSUME Init PROVE Inv
  OBVIOUS
<1>1. TypeOK
  <2>1. stack \in Seq(Frames) /\ results \in Seq(Results)
    BY DEF Init
  <2>2. held \in [Locks -> BOOLEAN]
    BY NoneHeld DEF Init
  <2>3. default_ls \in BOOLEAN /\ tid \in BOOLEAN /\ fd \in BOOLEAN /\ cancel \in BOOLEAN
    BY ZenonT(30) DEF Init
  <2> QED
    BY <2>1, <2>2, <2>3, LibdlmAssumption DEF Init, TypeOK, Callers, Status
<1>2. \A l : Casts(results, l) = {} /\ Basts(results, l) = {} /\ ~Signals(stack, l)
  BY DEF Init, Casts, Basts, Signals
<1>3. Lifetime /\ StackRules(stack, pc["recv"])
  BY DEF Init, Lifetime, StackRules, InCall, Callers, Locks
<1>4. Requests /\ Handshakes /\ Call
  BY <1>2 DEF Init, Requests, Once, Fresh, Handshakes, Handshake, Call, Loop, Callers, Locks
<1> QED
  BY <1>1, <1>3, <1>4 DEF Inv

\* Opening the lockspace, cancelling the receive thread, and the end of it
LEMMA LifetimeSteps ==
    ASSUME Inv, dlm_pthread_init \/ dlm_pthread_cleanup \/ Cancelled \/ ls_pthread_cleanup
    PROVE  Inv'
<1> USE DEF Inv
<1>1. CASE dlm_pthread_init
  <2>1. TypeOK'
    BY <1>1, LibdlmAssumption DEF dlm_pthread_init, TypeOK, kernelVars
  <2>2. Casts(results, "recv") = {}
    BY <1>1 DEF dlm_pthread_init, Lifetime, Casts
  <2>3. Lifetime' /\ StackRules(stack, pc["recv"])'
    BY <1>1 DEF dlm_pthread_init, Lifetime, kernelVars, InCall
  <2>4. Requests' /\ Handshakes'
    BY <1>1 DEF dlm_pthread_init, Requests, Handshakes, kernelVars
  <2>5. Call'
    BY <1>1, <2>2 DEF dlm_pthread_init, Call, Lifetime, kernelVars, Locks, Callers
  <2> QED
    BY <2>1, <2>3, <2>4, <2>5
<1>2. CASE dlm_pthread_cleanup
  <2>1. TypeOK'
    BY <1>2, ZenonT(30) DEF dlm_pthread_cleanup, TypeOK, kernelVars, bounds
  <2>2. Lifetime' /\ StackRules(stack, pc["recv"])'
    BY <1>2 DEF dlm_pthread_cleanup, Lifetime, Sensible, kernelVars, InCall
  <2>3. Requests' /\ Handshakes' /\ Call'
    BY <1>2 DEF dlm_pthread_cleanup, Requests, Handshakes, Call, kernelVars
  <2> QED
    BY <2>1, <2>2, <2>3
<1>3. CASE Cancelled
  <2>0. pc' = [pc EXCEPT !["recv"] = "idle"] /\ \A t \in Threads : pc'[t] = pc[t]
    BY <1>3, LibdlmAssumption DEF Cancelled, TypeOK, Callers
  <2>1. TypeOK'
    <3>1. stack' \in Seq(Frames)
      BY <1>3 DEF Cancelled
    <3> QED
      BY <1>3, <2>0, <3>1, ZenonT(30) DEF Cancelled, TypeOK, kernelVars, bounds, Callers
  <2>2. \A t \in Threads : ~InCall(t)
    BY <1>3 DEF Cancelled, Lifetime
  <2>3. Lifetime'
    BY <1>3, <2>0, <2>2 DEF Cancelled, Lifetime, kernelVars, InCall, TypeOK, Callers
  <2>4. StackRules(stack, pc["recv"])' /\ Requests'
    BY <1>3 DEF Cancelled, StackRules, Requests, kernelVars
  <2>5. Handshakes'
    BY <1>3, <2>0, <2>2 DEF Cancelled, Handshakes, Handshake, Signals, kernelVars, InCall, TypeOK, Callers
  <2>6. Call'
    BY <1>3, <2>0 DEF Cancelled, Call, Loop, kernelVars, TypeOK, Callers
  <2> QED
    BY <2>1, <2>3, <2>4, <2>5, <2>6
<1>4. CASE ls_pthread_cleanup
  <2>1. TypeOK'
    <3>1. results' \in Seq(Results)
      BY <1>4 DEF ls_pthread_cleanup
    <3>2. held' \in [Locks -> BOOLEAN]
      BY <1>4, NoneHeld DEF ls_pthread_cleanup
    <3> QED
      BY <1>4, <3>1, <3>2, ZenonT(30) DEF ls_pthread_cleanup, TypeOK, bounds
  <2>2. \A l : Casts(results', l) = {} /\ Basts(results', l) = {}
    BY <1>4 DEF ls_pthread_cleanup, Casts, Basts
  <2>3. ~tid /\ ~default_ls
    BY <1>4 DEF ls_pthread_cleanup, Lifetime
  <2>4. Lifetime' /\ StackRules(stack, pc["recv"])'
    BY <1>4, <2>3 DEF ls_pthread_cleanup, Lifetime, InCall
  <2>5. Requests'
    BY <1>4, <2>2 DEF ls_pthread_cleanup, Requests, Once, Fresh, Locks, Callers
  <2>6. Handshakes'
    BY <1>4, <2>2 DEF ls_pthread_cleanup, Handshakes, Handshake, Locks, Callers
  <2>7. Call'
    BY <1>4, <2>2, <2>3 DEF ls_pthread_cleanup, Call, Loop, Lifetime, Locks, Callers
  <2> QED
    BY <2>1, <2>4, <2>5, <2>6, <2>7
<1> QED
  BY <1>1, <1>2, <1>3, <1>4

\* The kernel answers.
LEMMA CompleteStep ==
    ASSUME Inv, NEW l \in Locks, NEW st \in {"OK", "EAGAIN", "EUNLOCK"}, op[l] # "none", Complete(l, st)
    PROVE  Inv'
<1> USE DEF Inv
<1> DEFINE r == [type |-> "cast", lock |-> l, status |-> st]
<1>1. /\ r \in Results /\ r.lock = l /\ results \in Seq(Results) /\ results' = Append(results, r)
      /\ UNCHANGED <<default_ls, tid, fd, cancel, pc, mutex, stack, sb_status, calls, basts, opens>>
  BY DEF Complete, Results, Status, TypeOK, libVars, bounds
<1>2. /\ op'[l] = "none" /\ answer'[l] = st
      /\ \A m \in Locks : m # l => op'[m] = op[m] /\ answer'[m] = answer[m]
  BY DEF Complete, TypeOK
<1>3. TypeOK'
  <2>1. results' \in Seq(Results)
    BY <1>1
  <2>2. held' \in [Locks -> BOOLEAN]
    BY DEF Complete, TypeOK
  <2>3. /\ op' \in [Locks -> {"none", "lock", "unlock"}] /\ answer' \in [Locks -> Status]
    BY DEF Complete, TypeOK, Status
  <2> QED
    BY <1>1, <2>1, <2>2, <2>3 DEF TypeOK
<1>4. Lifetime'
  <2>1. fd
    BY DEF Lifetime
  <2> QED
    BY <1>1, <2>1 DEF Lifetime, InCall
<1>5. StackRules(stack, pc["recv"])'
  BY <1>1
<1> HIDE DEF r
<1>6. \A c \in Callers : c # l =>
          /\ Casts(results', c) = Casts(results, c) /\ Basts(results', c) = Basts(results, c)
          /\ Once(op'[c], results', c) /\ Fresh(results', answer'[c], c)
          /\ op'[c] = op[c] /\ answer'[c] = answer[c]
  BY <1>1, <1>2, AppendOther, ZenonT(30) DEF Requests, Locks
<1>7. l \in Callers => /\ Casts(results, l) = {} /\ Once("none", results', l) /\ Fresh(results', st, l)
                       /\ Basts(results', l) = Basts(results, l)
  BY <1>1, AppendCast, ZenonT(30) DEF Requests, Once, r
<1>8. Requests'
  BY <1>2, <1>6, <1>7 DEF Requests
<1>9. Handshakes'
  <2> SUFFICES ASSUME NEW t \in Threads
               PROVE  Handshake(t, pc[t], mutex[t], stack, op'[t], results', sb_status[t], answer'[t])
    BY <1>1, ZenonT(30) DEF Handshakes
  <2>1. Handshake(t, pc[t], mutex[t], stack, op[t], results, sb_status[t], answer[t]) /\ t \in Callers
    BY ZenonT(30) DEF Handshakes, Callers
  <2>2. CASE t # l
    BY <1>6, <2>1, <2>2, ZenonT(30) DEF Handshake
  <2>3. CASE t = l
    BY <2>1, <2>3 DEF Handshake
  <2> QED
    BY <2>2, <2>3, ZenonT(30)
<1>10. Call'
  <2>1. "recv" \in Callers
    BY ZenonT(30) DEF Callers
  <2>2. CASE l # "recv"
    BY <1>1, <1>6, <2>1, <2>2, ZenonT(30) DEF Call, Loop
  <2>3. CASE l = "recv"
    BY <1>1, <1>7, <2>1, <2>3 DEF Call, Loop, Lifetime
  <2> QED
    BY <2>2, <2>3
<1> QED
  BY <1>3, <1>4, <1>5, <1>8, <1>9, <1>10

\* Grants, refusals and unlocks are answers.
LEMMA KernelStep == ASSUME Inv, Kernel PROVE Inv'
<1>1. PICK l \in Locks : Grant(l) \/ Refuse(l) \/ Unlocked(l)
  BY DEF Kernel
<1> QED
  BY <1>1, CompleteStep DEF Grant, Refuse, Unlocked

\* The kernel asks t for its lock.
LEMMA BastStep == ASSUME Inv, NEW t \in Threads, Bast(t) PROVE Inv'
<1> USE DEF Inv
<1> DEFINE r == [type |-> "bast", lock |-> t, status |-> answer[t]]
<1>1. /\ r \in Results /\ r.lock = t /\ results \in Seq(Results) /\ results' = Append(results, r)
      /\ UNCHANGED <<default_ls, tid, fd, cancel, pc, mutex, stack, sb_status, calls, opens, op, answer, held>>
  BY DEF Bast, Results, TypeOK, libVars, Locks, Callers
<1>2. TypeOK'
  <2>1. results' \in Seq(Results)
    BY <1>1
  <2>2. basts' \in 0 .. MaxBasts
    BY LibdlmAssumption DEF Bast, TypeOK
  <2> QED
    BY <1>1, <2>1, <2>2 DEF TypeOK
<1>3. Lifetime'
  <2>1. PICK c \in Callers : op[c] # "none"
    BY DEF Bast
  <2>2. fd
    BY <2>1 DEF Lifetime, Locks
  <2> QED
    BY <1>1, <2>2 DEF Lifetime, InCall
<1>4. StackRules(stack, pc["recv"])'
  BY <1>1
<1> HIDE DEF r
<1>5. \A c \in Callers : c # t =>
          /\ Casts(results', c) = Casts(results, c) /\ Basts(results', c) = Basts(results, c)
          /\ Once(op[c], results', c) /\ Fresh(results', answer[c], c)
  BY <1>1, AppendOther DEF Requests
<1>6. /\ Casts(results', t) = Casts(results, t)
      /\ Once(op[t], results', t) /\ Fresh(results', answer[t], t)
  BY <1>1, AppendBast DEF Requests, r, Callers
<1>7. Requests'
  BY <1>1, <1>5, <1>6, ZenonT(30) DEF Requests
<1>8. Handshakes'
  BY <1>1, <1>5, <1>6, ZenonT(30) DEF Handshakes, Handshake, Callers
<1>9. Call'
  BY <1>1, <1>5, LibdlmAssumption DEF Call, Loop, Callers
<1> QED
  BY <1>2, <1>3, <1>4, <1>7, <1>8, <1>9

\* A thread writes a request.
LEMMA WriteStep ==
    ASSUME Inv, NEW t \in Threads, NEW what \in {"lock", "unlock"}, sync_write(t, what)
    PROVE  Inv'
<1> USE DEF Inv
<1>1. /\ Request(t, what) /\ default_ls /\ ~InCall(t)
      /\ UNCHANGED <<default_ls, tid, fd, cancel, stack, basts, opens, held, answer, results>>
      /\ t \in Callers /\ t \in Locks /\ t # "recv"
  BY LibdlmAssumption DEF sync_write, Write, ls_lock, ls_unlock, Request, Callers, Locks
<1>2. /\ pc'[t] = "written" /\ mutex'[t] = "caller" /\ op'[t] = what /\ sb_status'[t] = EINPROG
      /\ \A c \in Callers : c # t => pc'[c] = pc[c] /\ op'[c] = op[c] /\ sb_status'[c] = sb_status[c]
      /\ \A u \in Threads : u # t => mutex'[u] = mutex[u]
  BY <1>1 DEF sync_write, Request, TypeOK, Locks
<1>3. TypeOK'
  <2>1. calls' \in 0 .. MaxCalls
    BY LibdlmAssumption DEF sync_write, Counted, TypeOK
  <2>2. /\ pc' \in [Callers -> {"idle", "written", "waiting", "woken", "loop", "returned"}]
        /\ mutex' \in [Threads -> {"free", "caller", "ast"}]
        /\ op' \in [Locks -> {"none", "lock", "unlock"}] /\ sb_status' \in [Locks -> Status]
    BY <1>1 DEF sync_write, Request, TypeOK, Status
  <2>3. pc'["recv"] \in {"idle", "loop", "returned"} /\ \A u \in Threads : pc'[u] # "loop"
    BY <1>1, <1>2 DEF TypeOK, Callers
  <2> QED
    BY <1>1, <2>1, <2>2, <2>3 DEF TypeOK
<1>4. pc[t] \in {"idle", "returned"}
  BY <1>1, ZenonT(30) DEF InCall, TypeOK
<1>5. op[t] = "none" /\ Casts(results, t) = {} /\ ~Signals(stack, t)
  BY <1>4 DEF Handshakes, Handshake
<1>6. Lifetime' /\ StackRules(stack, pc["recv"])'
  BY <1>1, <1>2, ZenonT(30) DEF Lifetime, Callers
<1>7. Requests'
  BY <1>1, <1>2, <1>5, ZenonT(30) DEF Requests, Once
<1>8. Handshakes'
  <2> SUFFICES ASSUME NEW u \in Threads
               PROVE  Handshake(u, pc'[u], mutex'[u], stack, op'[u], results, sb_status'[u], answer[u])
    BY <1>1, ZenonT(30) DEF Handshakes
  <2>1. CASE u = t
    BY <2>1, <1>2, <1>5 DEF Handshake
  <2>2. CASE u # t
    BY <2>2, <1>2, ZenonT(30) DEF Handshakes, Callers
  <2> QED
    BY <2>1, <2>2, ZenonT(30)
<1>9. Call'
  BY <1>1, <1>2 DEF Call, Callers
<1> QED
  BY <1>3, <1>6, <1>7, <1>8, <1>9

\* The device refuses a request.
LEMMA FailStep == ASSUME Inv, NEW c \in Callers, sync_write_fails(c) PROVE Inv'
<1> USE DEF Inv
<1>1. /\ UNCHANGED <<default_ls, tid, fd, cancel, mutex, stack, op, held, answer, results, basts, opens>>
      /\ default_ls /\ tid /\ ~InCall(c) /\ op[c] = "none" /\ c \in Locks
  BY DEF sync_write_fails, Lifetime, Locks, kernelVars
<1>2. /\ pc'[c] = "idle" /\ sb_status'[c] = EINPROG
      /\ \A d \in Callers : d # c => pc'[d] = pc[d] /\ sb_status'[d] = sb_status[d]
  BY <1>1 DEF sync_write_fails, TypeOK, Locks
<1>3. TypeOK'
  <2>1. calls' \in 0 .. MaxCalls
    BY LibdlmAssumption DEF sync_write_fails, TypeOK
  <2>2. /\ pc' \in [Callers -> {"idle", "written", "waiting", "woken", "loop", "returned"}]
        /\ sb_status' \in [Locks -> Status]
    BY <1>1 DEF sync_write_fails, TypeOK, Status
  <2>3. pc'["recv"] \in {"idle", "loop", "returned"} /\ \A u \in Threads : pc'[u] # "loop"
    BY <1>2, ZenonT(30) DEF TypeOK, Callers
  <2> QED
    BY <1>1, <2>1, <2>2, <2>3 DEF TypeOK
<1>4. pc[c] \in {"idle", "returned"}
  BY <1>1 DEF InCall, TypeOK
<1>5. Lifetime' /\ Requests'
  BY <1>1, ZenonT(30) DEF Lifetime, Requests
<1>6. StackRules(stack, pc["recv"])'
  BY <1>1, <1>2, <1>4, ZenonT(30) DEF StackRules, Callers
<1>7. Handshakes'
  <2> SUFFICES ASSUME NEW u \in Threads
               PROVE  Handshake(u, pc'[u], mutex[u], stack, op[u], results, sb_status'[u], answer[u])
    BY <1>1, ZenonT(30) DEF Handshakes
  <2>1. Handshake(u, pc[u], mutex[u], stack, op[u], results, sb_status[u], answer[u]) /\ u \in Callers
    BY ZenonT(30) DEF Handshakes, Callers
  <2>2. CASE u = c
    BY <2>1, <2>2, <1>2, <1>4, ZenonT(30) DEF Handshake
  <2>3. CASE u # c
    BY <2>1, <2>3, <1>2
  <2> QED
    BY <2>2, <2>3, ZenonT(30)
<1>8. Call'
  <2>1. CASE c = "recv"
    BY <2>1, <1>1, <1>2, <1>4, ZenonT(30) DEF Call, Loop
  <2>2. CASE c # "recv"
    BY <2>2, <1>1, <1>2, ZenonT(30) DEF Call, Callers
  <2> QED
    BY <2>1, <2>2, ZenonT(30)
<1> QED
  BY <1>3, <1>5, <1>6, <1>7, <1>8

\* pthread_cond_wait and what follows it
LEMMA WaitSteps ==
    ASSUME ~Spurious, Inv, NEW t \in Threads, cond_wait(t) \/ wakes(t)
    PROVE  Inv'
<1> USE DEF Inv
<1>1. /\ UNCHANGED <<default_ls, tid, fd, cancel, stack, sb_status, op, held, answer, results, calls, basts, opens>>
      /\ InCall(t) /\ t \in Callers /\ t # "recv"
  BY LibdlmAssumption DEF cond_wait, wakes, MayWake, kernelVars, bounds, InCall, Callers
<1>2. /\ \A d \in Callers : d # t => pc'[d] = pc[d]
      /\ \A u \in Threads : u # t => mutex'[u] = mutex[u]
      /\ \/ pc[t] = "written" /\ pc'[t] = "waiting" /\ mutex'[t] = "free"
         \/ pc[t] = "woken" /\ mutex[t] = "free" /\ pc'[t] = "returned" /\ mutex'[t] = mutex[t]
  BY <1>1 DEF cond_wait, wakes, MayWake, Reacquires, TypeOK
<1>3. TypeOK'
  <2>1. /\ pc' \in [Callers -> {"idle", "written", "waiting", "woken", "loop", "returned"}]
        /\ mutex' \in [Threads -> {"free", "caller", "ast"}]
    BY <1>1, ZenonT(30) DEF cond_wait, wakes, TypeOK
  <2>2. pc'["recv"] \in {"idle", "loop", "returned"} /\ \A u \in Threads : pc'[u] # "loop"
    BY <1>1, <1>2 DEF TypeOK, Callers
  <2> QED
    BY <1>1, <2>1, <2>2 DEF TypeOK
<1>4. Lifetime' /\ StackRules(stack, pc["recv"])' /\ Requests'
  BY <1>1, <1>2, ZenonT(30) DEF Lifetime, Requests, Callers
<1>5. Handshakes'
  <2> SUFFICES ASSUME NEW u \in Threads
               PROVE  Handshake(u, pc'[u], mutex'[u], stack, op[u], results, sb_status[u], answer[u])
    BY <1>1 DEF Handshakes
  <2>1. Handshake(u, pc[u], mutex[u], stack, op[u], results, sb_status[u], answer[u]) /\ u \in Callers
    BY DEF Handshakes, Callers
  <2>2. Signals(stack, u) => stack[Len(stack)].at \in {"lock", "signal", "unlock"}
    <3>1. stack # <<>> => stack[Len(stack)] \in Frames
      BY DEF TypeOK
    <3> QED
      BY <3>1 DEF Signals, Frames
  <2>3. CASE u = t
    BY <2>1, <2>2, <2>3, <1>2 DEF Handshake
  <2>4. CASE u # t
    BY <2>1, <2>4, <1>2
  <2> QED
    BY <2>3, <2>4
<1>6. Call'
  BY <1>1, <1>2, ZenonT(30) DEF Call, Callers
<1> QED
  BY <1>3, <1>4, <1>5, <1>6

\* An asynchronous request
LEMMA AsyncStep == ASSUME Inv, NEW what \in {"lock", "unlock"}, dlm_lock(what) PROVE Inv'
<1> USE DEF Inv
<1>1. /\ Request("async", what) /\ default_ls
      /\ UNCHANGED <<default_ls, tid, fd, cancel, pc, mutex, stack, basts, opens, held, answer, results>>
  BY DEF dlm_lock, Write, ls_lock, ls_unlock, Request
<1>2. \A c \in Callers : op'[c] = op[c] /\ sb_status'[c] = sb_status[c]
  BY <1>1, LibdlmAssumption DEF Request, TypeOK, Callers, Locks
<1>3. TypeOK'
  <2>1. calls' \in 0 .. MaxCalls
    BY LibdlmAssumption DEF dlm_lock, Counted, TypeOK
  <2>2. op' \in [Locks -> {"none", "lock", "unlock"}] /\ sb_status' \in [Locks -> Status]
    BY <1>1, ZenonT(30) DEF Request, TypeOK, Status
  <2> QED
    BY <1>1, <2>1, <2>2 DEF TypeOK
<1>4. Lifetime' /\ StackRules(stack, pc["recv"])'
  BY <1>1, ZenonT(30) DEF Lifetime
<1>5. Requests' /\ Handshakes' /\ Call'
  BY <1>1, <1>2 DEF Requests, Handshakes, Call, Callers
<1> QED
  BY <1>3, <1>4, <1>5, ZenonT(30)

\* When the receive thread reads, or runs an AST of the application, it signals nobody.
LEMMA NotSignalling ==
    ASSUME Reads \/ IsTop("user") \/ IsTop("loop")
    PROVE  \A t : ~Signals(stack, t)
  BY DEF Reads, IsTop, Top, Signals

\* A result is read, its lksb copied and its AST called.
LEMMA DispatchStep == ASSUME Inv, do_dlm_dispatch PROVE Inv'
<1> USE DEF Inv
<1> DEFINE h == Head(results)
<1>0. /\ sb_status' = [sb_status EXCEPT ![h.lock] = h.status] /\ stack' = stack \o Called(h)
      /\ UNCHANGED <<default_ls, tid, fd, cancel, pc, mutex, op, held, answer, calls, basts, opens>>
  BY ZenonT(30) DEF do_dlm_dispatch, Copied, bounds
<1>1. results \in Seq(Results) /\ results # <<>> /\ h = Head(results) /\ results' = Tail(results)
  BY DEF do_dlm_dispatch, TypeOK
<1>9. \A t : ~Signals(stack, t)
  BY NotSignalling DEF do_dlm_dispatch
<1>2. /\ h.lock \in Locks /\ h.status \in Status /\ h.type \in {"cast", "bast"}
      /\ sb_status'[h.lock] = h.status
      /\ \A l \in Locks : l # h.lock => sb_status'[l] = sb_status[l]
  <2>1. h \in Results
    BY <1>1
  <2> QED
    BY <1>0, <2>1 DEF Results, TypeOK
<1> HIDE DEF h
<1>3. /\ stack' \in Seq(Frames) /\ StackRules(stack', pc["recv"])
      /\ \A t : Signals(stack', t) <=> h.type = "cast" /\ h.lock = t /\ t \in Threads
      /\ \A t : Signals(stack', t) => stack'[Len(stack')].at = "lock"
  <2> DEFINE f == [type |-> castaddr(h.lock), lock |-> h.lock, at |-> "lock"]
  <2>0. stack \in Seq(Frames) /\ StackRules(stack, pc["recv"])
    BY DEF TypeOK
  <2>1. CASE h.type = "bast" \/ castaddr(h.lock) = "dummy"
    <3>1. stack' = stack
      BY <1>0, <2>0, <2>1 DEF Called
    <3>2. ~(h.type = "cast" /\ h.lock \in Threads)
      BY <2>1, LibdlmAssumption DEF castaddr
    <3> QED
      BY <1>9, <2>0, <3>1, <3>2
  <2>2. CASE ~(h.type = "bast" \/ castaddr(h.lock) = "dummy")
    <3>1. h.type = "cast" /\ stack' = Append(stack, f)
      BY <1>0, <1>2, <2>0, <2>2 DEF Called
    <3>2. /\ f \in Frames /\ f.type # "loop" /\ f.lock = h.lock /\ f.at = "lock"
          /\ f.type = "sync" <=> h.lock \in Threads
      BY <1>2, <2>2, LibdlmAssumption DEF castaddr, Frames, Locks, Callers
    <3> HIDE DEF f
    <3>3. /\ stack' \in Seq(Frames) /\ StackRules(stack', pc["recv"]) /\ stack'[Len(stack')] = f
          /\ \A t : Signals(stack', t) <=> f.type = "sync" /\ f.lock = t
      BY <1>9, <2>0, <3>1, <3>2, PushFrame, ZenonT(90)
    <3> QED
      BY <3>1, <3>2, <3>3
  <2> QED
    BY <2>1, <2>2
<1>4. TypeOK'
  <2>1. results' \in Seq(Results)
    BY <1>1
  <2>2. sb_status' \in [Locks -> Status]
    BY <1>0, <1>2 DEF TypeOK
  <2> QED
    BY <1>0, <1>3, <2>1, <2>2 DEF TypeOK
<1>5. Lifetime'
  <2>1. tid /\ fd
    BY DEF do_dlm_dispatch, Reads, Lifetime
  <2> QED
    BY <1>0, <2>1 DEF Lifetime, InCall
<1>6. Requests'
  BY <1>0, <1>1, ReadResult, ZenonT(30) DEF Requests
<1>10. ASSUME NEW c \in Callers, h.lock = c
       PROVE  /\ h.type = "cast" => /\ Casts(results, c) # {} /\ op[c] = "none" /\ Casts(results', c) = {}
                                    /\ h.status = answer[c]
              /\ h.type = "bast" /\ Casts(results, c) = {} => Casts(results', c) = {} /\ h.status = answer[c]
  <2> DEFINE o == op[c]
             a == answer[c]
  <2>1. Once(o, results, c) /\ Fresh(results, a, c)
    BY DEF Requests
  <2>4. Head(results).lock = c
    BY <1>10 DEF h
  <2> HIDE DEF o, a
  <2>2. ASSUME Head(results).type = "cast"
        PROVE  Casts(results, c) # {} /\ o = "none" /\ Casts(Tail(results), c) = {} /\ Head(results).status = a
    BY <1>1, <2>1, <2>2, <2>4, ReadCast, ZenonT(30)
  <2>3. ASSUME Head(results).type = "bast", Casts(results, c) = {}
        PROVE  Casts(Tail(results), c) = {} /\ Head(results).status = a
    BY <1>1, <2>1, <2>3, <2>4, ReadBast, ZenonT(30)
  <2> QED
    BY <1>1, <2>2, <2>3 DEF h, o, a
<1>7. Handshakes'
  <2> SUFFICES ASSUME NEW t \in Threads
               PROVE  Handshake(t, pc[t], mutex[t], stack', op[t], results', sb_status'[t], answer[t])
    BY <1>0 DEF Handshakes
  <2>1. /\ Handshake(t, pc[t], mutex[t], stack, op[t], results, sb_status[t], answer[t])
        /\ Once(op[t], results, t) /\ Fresh(results, answer[t], t) /\ t \in Locks
    BY DEF Handshakes, Callers, Locks, Requests
  <2>2. ~Signals(stack, t) /\ mutex[t] # "ast"
    BY <1>9, <2>1, ZenonT(30) DEF Handshake
  <2>3. CASE h.lock # t
    <3>1. ~Signals(stack', t) /\ sb_status'[t] = sb_status[t]
      BY <1>2, <1>3, <2>1, <2>3, ZenonT(30)
    <3>2. Casts(results, t) = {} => Casts(results', t) = {}
      BY <1>1, ReadResult, ZenonT(30)
    <3> QED
      BY <2>1, <2>2, <3>1, <3>2, ZenonT(30) DEF Handshake
  <2>4. CASE h.lock = t /\ h.type = "cast"
    <3>1. Casts(results, t) # {} /\ op[t] = "none" /\ Casts(results', t) = {} /\ h.status = answer[t]
      BY <2>4, <1>10 DEF Callers
    <3>2. sb_status'[t] = answer[t]
      BY <1>2, <2>4, <3>1, ZenonT(30)
    <3>3. pc[t] \notin {"idle", "returned", "woken"}
      BY <2>1, <3>1 DEF Handshake
    <3>4. Signals(stack', t) /\ stack'[Len(stack')].at = "lock"
      BY <1>3, <2>4, ZenonT(30)
    <3> QED
      BY <2>1, <2>2, <3>1, <3>2, <3>3, <3>4, ZenonT(30) DEF Handshake
  <2>5. CASE h.lock = t /\ h.type = "bast"
    <3>1. ~Signals(stack', t)
      BY <1>3, <2>5, ZenonT(30)
    <3>2. Casts(results, t) = {} => Casts(results', t) = {} /\ sb_status'[t] = answer[t]
      <4>1. Casts(results, t) = {} => Casts(results', t) = {} /\ h.status = answer[t]
        BY <2>5, <1>10 DEF Callers
      <4> QED
        BY <1>2, <2>5, <4>1
    <3> QED
      BY <2>1, <2>2, <3>1, <3>2, ZenonT(30) DEF Handshake
  <2> QED
    BY <1>2, <2>3, <2>4, <2>5, ZenonT(30)
<1>8. Call'
  <2>0. "recv" \in Locks /\ Once(op["recv"], results, "recv") /\ Fresh(results, answer["recv"], "recv")
    BY DEF Requests, Callers, Locks
  <2>1. /\ Casts(results, "recv") = {} => Casts(results', "recv") = {}
        /\ Basts(results', "recv") = {} /\ (h.lock = "recv" => h.type = "cast")
    BY <1>1, <1>2, ReadResult, ZenonT(30) DEF Call, Loop
  <2>2. CASE h.lock # "recv"
    BY <1>0, <1>2, <2>0, <2>1, <2>2 DEF Call, Loop
  <2>3. CASE h.lock = "recv"
    <3>1. /\ Casts(results, "recv") # {} /\ op["recv"] = "none" /\ Casts(results', "recv") = {}
          /\ h.status = answer["recv"]
      BY <2>1, <2>3, <1>10, ZenonT(30) DEF Callers
    <3>2. sb_status'["recv"] = answer["recv"]
      BY <1>2, <2>3, <3>1, ZenonT(30)
    <3> QED
      BY <1>0, <2>1, <3>1, <3>2, ZenonT(30) DEF Call, Loop
  <2> QED
    BY <2>2, <2>3
<1> QED
  BY <1>0, <1>3, <1>4, <1>5, <1>6, <1>7, <1>8, ZenonT(30)

\* sync_ast_routine locks, signals and unlocks.
LEMMA AstStep == ASSUME Inv, sync_ast_routine PROVE Inv'
<1> USE DEF Inv
<1>1. /\ stack # <<>> /\ stack \in Seq(Frames) /\ stack[Len(stack)].type = "sync"
      /\ UNCHANGED <<default_ls, tid, fd, cancel, sb_status, op, held, answer, results, calls, basts, opens>>
  BY DEF sync_ast_routine, IsTop, Top, TypeOK, kernelVars, bounds
<1> DEFINE t == stack[Len(stack)].lock
           at == stack[Len(stack)].at
<1>2. t \in Threads /\ t # "recv" /\ t \in Callers /\ Signals(stack, t) /\ \A u : u # t => ~Signals(stack, u)
  <2>1. stack[Len(stack)] \in Frames
    BY <1>1
  <2> QED
    BY <1>1, <2>1, LibdlmAssumption DEF Frames, Signals, Callers
<1>3. Handshake(t, pc[t], mutex[t], stack, op[t], results, sb_status[t], answer[t])
  BY <1>2 DEF Handshakes
<1>4. \A u \in Threads : u # t => mutex[u] # "ast"
  BY <1>2 DEF Handshakes, Handshake
<1>5. \/ /\ at = "lock" /\ mutex[t] = "free" /\ mutex' = [mutex EXCEPT ![t] = "ast"]
         /\ stack' = [stack EXCEPT ![Len(stack)].at = "signal"] /\ pc' = pc
      \/ /\ at = "signal" /\ stack' = [stack EXCEPT ![Len(stack)].at = "unlock"]
         /\ pc' = IF pc[t] = "waiting" THEN [pc EXCEPT ![t] = "woken"] ELSE pc
         /\ mutex' = mutex
      \/ /\ at = "unlock" /\ mutex' = [mutex EXCEPT ![t] = "free"]
         /\ stack' = SubSeq(stack, 1, Len(stack) - 1) /\ pc' = pc
  BY DEF sync_ast_routine, At, Top, Pop
<1>6. /\ stack' \in Seq(Frames) /\ StackRules(stack', pc["recv"])
      /\ at = "lock" => Signals(stack', t) /\ stack'[Len(stack')].at = "signal"
      /\ at = "signal" => Signals(stack', t) /\ stack'[Len(stack')].at = "unlock"
      /\ at = "unlock" => ~Signals(stack', t)
      /\ \A u : u # t => ~Signals(stack', u)
  <2>1. CASE at = "lock"
    BY <1>1, <1>2, <1>5, <2>1, MoveFrame
  <2>2. CASE at = "signal"
    BY <1>1, <1>2, <1>5, <2>2, MoveFrame
  <2>3. CASE at = "unlock"
    BY <1>1, <1>2, <1>5, <2>3, PopFrame, ZenonT(30)
  <2> QED
    BY <1>5, <2>1, <2>2, <2>3
<1>7. /\ \A c \in Callers : c # t => pc'[c] = pc[c]
      /\ \A u \in Threads : u # t => mutex'[u] = mutex[u]
      /\ at = "lock" => pc[t] = "waiting" /\ pc'[t] = "waiting" /\ mutex'[t] = "ast"
      /\ at = "signal" => pc[t] = "waiting" /\ pc'[t] = "woken" /\ mutex'[t] = "ast"
      /\ at = "unlock" => pc[t] = "woken" /\ pc'[t] = "woken" /\ mutex'[t] = "free"
  <2>1. pc[t] \in {"idle", "written", "waiting", "woken", "returned"}
    BY <1>2 DEF TypeOK
  <2>2. /\ at = "lock" /\ mutex[t] = "free" => pc[t] = "waiting"
        /\ at = "signal" => pc[t] = "waiting" /\ mutex[t] = "ast"
        /\ at = "unlock" => pc[t] = "woken"
    BY <1>2, <1>3, <2>1, ZenonT(30) DEF Handshake
  <2> HIDE DEF t, at
  <2> QED
    BY <1>2, <1>5, <2>2 DEF TypeOK
<1> HIDE DEF t, at
<1>8. TypeOK'
  <2>1. /\ pc' \in [Callers -> {"idle", "written", "waiting", "woken", "loop", "returned"}]
        /\ mutex' \in [Threads -> {"free", "caller", "ast"}]
    BY <1>2, <1>5 DEF TypeOK
  <2>2. pc'["recv"] \in {"idle", "loop", "returned"} /\ \A u \in Threads : pc'[u] # "loop"
    BY <1>2, <1>5, <1>7 DEF TypeOK, Callers
  <2> QED
    BY <1>1, <1>6, <2>1, <2>2 DEF TypeOK
<1>9. pc'["recv"] = pc["recv"]
  BY <1>2, <1>7 DEF Callers
<1>10. Lifetime'
  <2>1. InCall(t)
    BY <1>2, <1>5, <1>7 DEF InCall
  <2>2. default_ls
    BY <1>2, <2>1 DEF Lifetime
  <2> QED
    BY <1>1, <1>9, <2>2 DEF Lifetime
<1>11. Requests' /\ Call'
  BY <1>1, <1>9, ZenonT(30) DEF Requests, Call
<1>12. Handshakes'
  <2> SUFFICES ASSUME NEW u \in Threads
               PROVE  Handshake(u, pc'[u], mutex'[u], stack', op[u], results, sb_status[u], answer[u])
    BY <1>1 DEF Handshakes
  <2>1. CASE u = t
    BY <2>1, <1>2, <1>3, <1>5, <1>6, <1>7, ZenonT(30) DEF Handshake
  <2>2. CASE u # t
    BY <2>2, <1>2, <1>4, <1>6, <1>7, ZenonT(30) DEF Handshakes, Handshake, Callers
  <2> QED
    BY <2>1, <2>2, ZenonT(30)
<1> QED
  BY <1>6, <1>8, <1>9, <1>10, <1>11, <1>12, ZenonT(30)

\* An AST of the application makes a synchronous call.
LEMMA RecvWriteStep ==
    ASSUME Inv, NEW what \in {"lock", "unlock"}, sync_write_recv(what)
    PROVE  Inv'
<1> USE DEF Inv
<1> DEFINE f == [type |-> "loop", lock |-> "recv", at |-> "lock"]
<1>1. /\ Request("recv", what) /\ default_ls /\ tid /\ ~InCall("recv")
      /\ stack' = Append(stack, f)
      /\ UNCHANGED <<default_ls, tid, fd, cancel, mutex, basts, opens, held, answer, results>>
      /\ "recv" \in Callers /\ "recv" \in Locks
  BY DEF sync_write_recv, Write, ls_lock, ls_unlock, Request, Lifetime, Callers, Locks
<1>2. /\ pc'["recv"] = "loop" /\ op'["recv"] = what /\ sb_status'["recv"] = EINPROG
      /\ \A c \in Callers : c # "recv" => pc'[c] = pc[c] /\ op'[c] = op[c] /\ sb_status'[c] = sb_status[c]
  BY <1>1 DEF sync_write_recv, Request, TypeOK, Locks
<1>3. \A t \in Threads : t \in Callers /\ t # "recv"
  BY LibdlmAssumption DEF Callers
<1>4. pc["recv"] # "loop" /\ Casts(results, "recv") = {}
  BY <1>1 DEF InCall, Call
<1>5. \A t : ~Signals(stack, t)
  BY NotSignalling DEF sync_write_recv
<1>6. f \in Frames /\ f.type = "loop" /\ stack \in Seq(Frames)
  BY DEF Frames, TypeOK
<1> HIDE DEF f
<1>7. stack' \in Seq(Frames) /\ StackRules(stack', "loop") /\ \A t : ~Signals(stack', t)
  <2>1. /\ Append(stack, f) \in Seq(Frames) /\ StackRules(Append(stack, f), "loop")
        /\ \A t : Signals(Append(stack, f), t) <=> f.type = "sync" /\ f.lock = t
    BY <1>4, <1>5, <1>6, PushFrame, ZenonT(20)
  <2> QED
    BY <1>1, <1>6, <2>1
<1>8. TypeOK'
  <2>1. calls' \in 0 .. MaxCalls
    BY LibdlmAssumption DEF sync_write_recv, Counted, TypeOK
  <2>2. /\ pc' \in [Callers -> {"idle", "written", "waiting", "woken", "loop", "returned"}]
        /\ op' \in [Locks -> {"none", "lock", "unlock"}] /\ sb_status' \in [Locks -> Status]
    BY <1>1 DEF sync_write_recv, Request, TypeOK, Status
  <2>3. pc'["recv"] \in {"idle", "loop", "returned"} /\ \A u \in Threads : pc'[u] # "loop"
    BY <1>2, <1>3 DEF TypeOK
  <2> QED
    BY <1>1, <1>7, <2>1, <2>2, <2>3 DEF TypeOK
<1>9. Lifetime'
  BY <1>1 DEF Lifetime
<1>10. Requests'
  BY <1>1, <1>2, <1>4, ZenonT(30) DEF Requests, Once
<1>11. Handshakes'
  BY <1>1, <1>2, <1>3, <1>5, <1>7, ZenonT(30) DEF Handshakes, Handshake
<1>12. Call'
  BY <1>1, <1>2, <1>4 DEF Call, Loop
<1> QED
  BY <1>2, <1>7, <1>8, <1>9, <1>10, <1>11, <1>12, ZenonT(30)

\* A call in an AST returns, or the AST does.
LEMMA ReturnSteps == ASSUME Inv, loop_ends \/ ast_returns PROVE Inv'
<1> USE DEF Inv
<1>1. /\ stack # <<>> /\ stack \in Seq(Frames) /\ stack' = SubSeq(stack, 1, Len(stack) - 1)
      /\ UNCHANGED <<default_ls, tid, fd, cancel, mutex, sb_status, op, held, answer, results, calls, basts, opens>>
      /\ \/ pc' = pc
         \/ /\ stack[Len(stack)].type = "loop" /\ sb_status["recv"] # EINPROG
            /\ pc' = [pc EXCEPT !["recv"] = "returned"]
  BY DEF loop_ends, ast_returns, IsTop, Top, Pop, TypeOK, kernelVars, bounds
<1>2. /\ \A t \in Threads : t \in Callers /\ pc'[t] = pc[t]
      /\ \/ pc'["recv"] = pc["recv"]
         \/ /\ stack[Len(stack)].type = "loop" /\ sb_status["recv"] # EINPROG
            /\ pc'["recv"] = "returned" /\ pc["recv"] = "loop"
  <2>1. stack[Len(stack)].type = "loop" => pc["recv"] = "loop"
    <3>1. Len(stack) \in DOMAIN stack
      BY <1>1
    <3> QED
      BY <3>1 DEF StackRules
  <2> QED
    BY <1>1, <2>1, LibdlmAssumption DEF TypeOK, Callers
<1>3. \A t : ~Signals(stack, t)
  BY NotSignalling DEF loop_ends, ast_returns
<1>4. stack' \in Seq(Frames) /\ StackRules(stack', pc'["recv"]) /\ \A t : ~Signals(stack', t)
  BY <1>1, <1>2, PopFrame, ZenonT(30)
<1>5. TypeOK'
  <2>1. pc' \in [Callers -> {"idle", "written", "waiting", "woken", "loop", "returned"}]
    BY <1>1, ZenonT(30) DEF TypeOK
  <2>2. pc'["recv"] \in {"idle", "loop", "returned"} /\ \A u \in Threads : pc'[u] # "loop"
    BY <1>2 DEF TypeOK
  <2> QED
    BY <1>1, <1>4, <2>1, <2>2 DEF TypeOK
<1>6. Lifetime'
  BY <1>1, <1>2 DEF Lifetime, InCall
<1>7. Requests'
  BY <1>1, ZenonT(30) DEF Requests
<1>8. Handshakes'
  BY <1>1, <1>2, <1>3, <1>4, ZenonT(30) DEF Handshakes, Handshake
<1>9. Call'
  BY <1>1, <1>2 DEF Call, Loop
<1> QED
  BY <1>4, <1>5, <1>6, <1>7, <1>8, <1>9, ZenonT(30)

\* Every step keeps the invariant.
LEMMA NextInv == ASSUME ~Spurious PROVE Inv /\ [Next]_vars => Inv'
<1> SUFFICES ASSUME Inv, [Next]_vars PROVE Inv'
  OBVIOUS
<1>1. CASE dlm_pthread_init \/ dlm_pthread_cleanup \/ Cancelled \/ ls_pthread_cleanup
  BY <1>1, LifetimeSteps
<1>2. CASE Kernel
  BY <1>2, KernelStep
<1>3. ASSUME NEW t \in Threads, Bast(t) PROVE Inv'
  BY <1>3, BastStep
<1>4. ASSUME NEW t \in Threads, cond_wait(t) \/ wakes(t) PROVE Inv'
  BY <1>4, WaitSteps
<1>5. ASSUME NEW t \in Threads, NEW what \in {"lock", "unlock"}, sync_write(t, what) PROVE Inv'
  BY <1>5, WriteStep
<1>6. ASSUME NEW c \in Callers, sync_write_fails(c) PROVE Inv'
  BY <1>6, FailStep
<1>7. ASSUME NEW what \in {"lock", "unlock"}, dlm_lock(what) PROVE Inv'
  BY <1>7, AsyncStep
<1>8. ASSUME NEW what \in {"lock", "unlock"}, sync_write_recv(what) PROVE Inv'
  BY <1>8, RecvWriteStep
<1>9. CASE Receive
  BY <1>9, DispatchStep, AstStep, ReturnSteps DEF Receive
<1>10. CASE ast_returns
  BY <1>10, ReturnSteps, ZenonT(30)
<1>11. CASE UNCHANGED vars
  BY <1>11 DEF Inv, TypeOK, Lifetime, InCall, Requests, Handshakes, Call, vars, libVars, kernelVars, bounds
<1> QED
  BY <1>1, <1>2, <1>3, <1>4, <1>5, <1>6, <1>7, <1>8, <1>9, <1>10, <1>11 DEF Next

\* Inv holds of every reachable state.
THEOREM LibdlmInvariant == ASSUME ~Spurious PROVE Spec => []Inv
  BY InitInv, NextInv, PTL DEF Spec

\* The state keeps its types; sync_ast_routine never signals the receive thread itself.
THEOREM LibdlmTypes == ASSUME ~Spurious PROVE Spec => []TypeOK
<1>1. Inv => TypeOK
  BY DEF Inv
<1> QED
  BY <1>1, LibdlmInvariant, PTL

\* For any number of threads, requests and blocking ASTs: a synchronous call of libdlm
\* returns with the status that the kernel gave its own request, and not before.
THEOREM ReturnsItsAnswer == ASSUME ~Spurious PROVE Spec => []CompleteOnReturn
<1>1. Inv => CompleteOnReturn
  <2> SUFFICES ASSUME Inv, NEW c \in Callers, pc[c] = "returned"
               PROVE  op[c] = "none" /\ sb_status[c] = answer[c]
    BY ZenonT(30) DEF CompleteOnReturn
  <2>1. CASE c \in Threads
    BY <2>1, ZenonT(30) DEF Inv, Handshakes, Handshake
  <2>2. CASE c = "recv"
    BY <2>2 DEF Inv, Call, Loop
  <2> QED
    BY <2>1, <2>2 DEF Callers
<1> QED
  BY <1>1, LibdlmInvariant, PTL

\* However the threads interleave, sync_ast_routine runs only while the frame that has its
\* mutex and its condition variable exists, and no result will call it later.
THEOREM FramesOutliveAsts == ASSUME ~Spurious PROVE Spec => []NoDeadFrame
<1>1. Inv => NoDeadFrame
  <2> SUFFICES ASSUME Inv PROVE NoDeadFrame
    OBVIOUS
  <2>1. ASSUME NEW t \in Threads, Signals(stack, t) \/ Casts(results, t) # {} PROVE InCall(t)
    <3>1. pc[t] \notin {"idle", "returned"}
      BY <2>1, ZenonT(30) DEF Inv, Handshakes, Handshake
    <3>2. pc[t] \in {"idle", "written", "waiting", "woken", "loop", "returned"}
      BY DEF Inv, TypeOK, Callers
    <3> QED
      BY <3>1, <3>2, ZenonT(30) DEF InCall
  <2>2. ASSUME NEW i \in DOMAIN stack, stack[i].type = "sync" PROVE InCall(stack[i].lock)
    <3>1. i = Len(stack) /\ stack[i] \in Frames /\ stack # <<>>
      BY <2>2 DEF Inv, StackRules, TypeOK
    <3>2. stack[i].lock \in Threads /\ Signals(stack, stack[i].lock)
      BY <2>2, <3>1 DEF Frames, Signals
    <3> QED
      BY <2>1, <3>2
  <2>3. ASSUME NEW i \in DOMAIN results, results[i].type = "cast", results[i].lock \in Threads
        PROVE  InCall(results[i].lock)
    <3>1. Casts(results, results[i].lock) # {}
      BY <2>3 DEF Casts
    <3> QED
      BY <2>1, <2>3, <3>1
  <2> QED
    BY <2>2, <2>3 DEF NoDeadFrame
<1> QED
  BY <1>1, LibdlmInvariant, PTL
=============================================================================
