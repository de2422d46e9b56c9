------------------------------- MODULE Libdlm -------------------------------
(***************************************************************************)
(* The synchronous calls of libdlm in a process with threads: a thread     *)
(* writes a request to the device of the lockspace and waits on a          *)
(* condition variable in its stack frame.  The receive thread reads the    *)
(* results, copies the lksb and runs the AST, which for these calls        *)
(* signals.  An AST may make synchronous calls itself: it runs on the      *)
(* receive thread, which then reads results in a loop of its own.          *)
(*                                                                         *)
(* The kernel's side is modelled from the library's use of it.  The locks  *)
(* of the threads and of the receive thread exclude each other; one more   *)
(* lock is used asynchronously and has a resource to itself.  The waits on *)
(* the condition variable are not in a loop that looks at a condition:     *)
(* what the wakeups without a signal do, which POSIX allows, is a constant *)
(* of the model.  An AST that runs inside the loop of a synchronous call   *)
(* makes no synchronous call of its own.                                   *)
(***************************************************************************)
EXTENDS Naturals, Sequences, FiniteSets

CONSTANTS
    Threads,   \* threads of the application that make synchronous calls
    Spurious,  \* whether pthread_cond_wait may return without a signal
    MaxCalls,  \* bound on lock requests and on writes that fail
    MaxBasts,  \* bound on blocking ASTs
    MaxOpens   \* bound on openings of the default lockspace

ASSUME LibdlmAssumption ==
    /\ IsFiniteSet(Threads) /\ Spurious \in BOOLEAN
    /\ MaxCalls \in Nat /\ MaxBasts \in Nat /\ MaxOpens \in Nat
    /\ "recv" \notin Threads /\ "async" \notin Threads

\* Who makes synchronous calls: "recv" stands for the receive thread.  Each has one lock,
\* with one lksb, and goes by the name of its owner.
Callers == Threads \cup {"recv"}
Locks == Callers \cup {"async"}

EINPROG == "EINPROG"
Status == {"none", EINPROG, "OK", "EAGAIN", "EUNLOCK"}

VARIABLES
    default_ls, \* whether the default lockspace is open
    tid,        \* whether it has a receive thread
    fd,         \* whether its device is open
    cancel,     \* whether the receive thread has been cancelled
    pc,         \* pc[c]: where c is in its synchronous call
    mutex,      \* mutex[t]: who holds lwait.mutex in the frame of t
    stack,      \* the calls on the stack of the receive thread
    sb_status,  \* sb_status[l]: in the user's lksb
    op,         \* op[l]: what the kernel has been asked to do
    held,       \* held[l]: whether the lock is granted
    answer,     \* answer[l]: the status of the last request that has completed
    results,    \* what can be read from the device
    calls, basts, opens

libVars == <<default_ls, tid, fd, cancel, pc, mutex, stack, sb_status>>
kernelVars == <<op, held, answer, results>>
bounds == <<calls, basts, opens>>
vars == <<libVars, kernelVars, bounds>>

Init == /\ default_ls = FALSE /\ tid = FALSE /\ fd = FALSE /\ cancel = FALSE
        /\ pc = [c \in Callers |-> "idle"] /\ mutex = [t \in Threads |-> "free"]
        /\ stack = <<>> /\ sb_status = [l \in Locks |-> "none"]
        /\ op = [l \in Locks |-> "none"] /\ held = [l \in Locks |-> FALSE]
        /\ answer = [l \in Locks |-> "none"] /\ results = <<>>
        /\ calls = 0 /\ basts = 0 /\ opens = 0

InCall(c) == pc[c] \in {"written", "waiting", "woken", "loop"}

Top == stack[Len(stack)]
Pop == SubSeq(stack, 1, Len(stack) - 1)
IsTop(type) == stack # <<>> /\ Top.type = type

-----------------------------------------------------------------------------
(* Opening and closing the default lockspace.  The application is sensible, as the library
   asks it to be: it does so in one thread, when no other is in a call. *)

Sensible == \A t \in Threads : ~InCall(t)

\* lock_resource finds no default_ls.  (When a step of it fails all is undone.)
dlm_pthread_init ==
    /\ ~default_ls /\ ~fd /\ Sensible /\ opens < MaxOpens
    /\ default_ls' = TRUE /\ fd' = TRUE /\ tid' = TRUE
    /\ opens' = opens + 1
    /\ UNCHANGED <<cancel, pc, mutex, stack, sb_status, kernelVars, calls, basts>>

\* pthread_cancel
dlm_pthread_cleanup ==
    /\ default_ls /\ Sensible
    /\ default_ls' = FALSE /\ cancel' = TRUE
    /\ UNCHANGED <<tid, fd, pc, mutex, stack, sb_status, kernelVars, bounds>>

\* Mutant: it reads in dlm_recv_thread only.
Reads_Base == tid /\ stack = <<>>

\* The receive thread blocks in read, in dlm_recv_thread or in a call that it makes.
Reads == tid /\ (stack = <<>> \/ (IsTop("loop") /\ sb_status["recv"] = EINPROG))

\* The thread sees that it has been cancelled in read, or in an AST of the application, whose
\* write to the device is a cancellation point too.  sync_ast_routine has none.
CancellationPoint == Reads \/ IsTop("user")

\* Its stack goes with it.
Cancelled ==
    /\ cancel /\ tid /\ CancellationPoint
    /\ tid' = FALSE /\ stack' = <<>> /\ pc' = [pc EXCEPT !["recv"] = "idle"]
    /\ UNCHANGED <<default_ls, fd, cancel, mutex, sb_status, kernelVars, bounds>>

\* After pthread_join: the kernel drops the locks of who closes the device.  (The receive
\* thread ends in no other way, so that pthread_cancel finds it.)
ls_pthread_cleanup ==
    /\ cancel /\ ~tid
    /\ cancel' = FALSE /\ fd' = FALSE
    /\ op' = [l \in Locks |-> "none"] /\ held' = [l \in Locks |-> FALSE] /\ results' = <<>>
    /\ UNCHANGED <<default_ls, tid, pc, mutex, stack, sb_status, answer, bounds>>

-----------------------------------------------------------------------------
(* The kernel *)

\* A request: sb_status is set, and the request written to the device.
Request(l, what) ==
    /\ op[l] = "none"
    /\ sb_status' = [sb_status EXCEPT ![l] = EINPROG]
    /\ op' = [op EXCEPT ![l] = what]
    /\ UNCHANGED <<held, answer, results>>

\* A new lock; conversions are left out.
ls_lock(l) == ~held[l] /\ Request(l, "lock")
ls_unlock(l) == held[l] /\ Request(l, "unlock")

Write(l, what) == (what = "lock" /\ ls_lock(l)) \/ (what = "unlock" /\ ls_unlock(l))

Complete(l, st) ==
    /\ op' = [op EXCEPT ![l] = "none"]
    /\ held' = [held EXCEPT ![l] = (st = "OK")]
    /\ answer' = [answer EXCEPT ![l] = st]
    /\ results' = Append(results, [type |-> "cast", lock |-> l, status |-> st])
    /\ UNCHANGED <<libVars, bounds>>

Conflict(l) == l \in Callers /\ \E m \in Callers : held[m]

Grant(l) == op[l] = "lock" /\ ~Conflict(l) /\ Complete(l, "OK")
\* Without a wait, or after a timeout or a cancellation
Refuse(l) == op[l] = "lock" /\ Conflict(l) /\ Complete(l, "EAGAIN")
Unlocked(l) == op[l] = "unlock" /\ Complete(l, "EUNLOCK")

\* A blocking AST for a lock that another waits for: the result has the lksb of the last
\* completion.  The receive thread asks for none.
Bast(t) ==
    /\ held[t] /\ basts < MaxBasts /\ \E c \in Callers \ {t} : op[c] = "lock"
    /\ basts' = basts + 1
    /\ results' = Append(results, [type |-> "bast", lock |-> t, status |-> answer[t]])
    /\ UNCHANGED <<libVars, op, held, answer, calls, opens>>

Kernel == \E l \in Locks : Grant(l) \/ Refuse(l) \/ Unlocked(l)

-----------------------------------------------------------------------------
(* Calls of a thread *)

Counted(what) == (what = "lock" => calls < MaxCalls) /\ calls' = IF what = "lock" THEN calls + 1 ELSE calls

\* lock_resource, unlock_resource, and sync_write for a thread other than the receive
\* thread, up to the wait
sync_write(t, what) ==
    /\ default_ls /\ ~InCall(t) /\ Counted(what)
    /\ Write(t, what) /\ mutex' = [mutex EXCEPT ![t] = "caller"]
    /\ pc' = [pc EXCEPT ![t] = "written"]
    /\ UNCHANGED <<default_ls, tid, fd, cancel, stack, basts, opens>>

\* The device refuses the request: the call returns an error.
sync_write_fails(c) ==
    /\ default_ls /\ ~InCall(c) /\ (c = "recv" => IsTop("user"))
    /\ op[c] = "none" /\ calls < MaxCalls /\ calls' = calls + 1
    /\ sb_status' = [sb_status EXCEPT ![c] = EINPROG]
    /\ pc' = [pc EXCEPT ![c] = "idle"]
    /\ UNCHANGED <<default_ls, tid, fd, cancel, mutex, stack, kernelVars, basts, opens>>

\* pthread_cond_wait, in two parts
cond_wait(t) ==
    /\ pc[t] = "written"
    /\ pc' = [pc EXCEPT ![t] = "waiting"] /\ mutex' = [mutex EXCEPT ![t] = "free"]
    /\ UNCHANGED <<default_ls, tid, fd, cancel, stack, sb_status, kernelVars, bounds>>

\* Mutant: who is woken does not wait for the mutex.
Reacquires_Not(t) == TRUE

Reacquires(t) == mutex[t] = "free"

MayWake == IF Spurious THEN {"waiting", "woken"} ELSE {"woken"}

\* The thread has the mutex, unlocks it and returns: its frame is gone.
wakes(t) ==
    /\ pc[t] \in MayWake /\ Reacquires(t)
    /\ pc' = [pc EXCEPT ![t] = "returned"]
    /\ UNCHANGED <<default_ls, tid, fd, cancel, mutex, stack, sb_status, kernelVars, bounds>>

\* dlm_lock and dlm_unlock: a request with an AST of the application
dlm_lock(what) ==
    /\ default_ls /\ Counted(what) /\ Write("async", what)
    /\ UNCHANGED <<default_ls, tid, fd, cancel, pc, mutex, stack, basts, opens>>

-----------------------------------------------------------------------------
(* The receive thread *)

\* Mutant: the receive thread is a thread like others.
castaddr_Same(l) == IF l = "async" THEN "user" ELSE "sync"

\* sync_write chooses the AST: the receive thread does not use lwait.
castaddr(l) == CASE l = "async" -> "user"
                 [] l \in Threads -> "sync"
                 [] OTHER -> "dummy"

\* The call of the AST; dummy_ast_routine, and the blocking ASTs here, do nothing.
Called(res) ==
    IF res.type = "bast" \/ castaddr(res.lock) = "dummy" THEN <<>>
    ELSE <<[type |-> castaddr(res.lock), lock |-> res.lock, at |-> "lock"]>>

\* Mutant: the lksb is copied once for a request.
Copied_Once(res) == IF sb_status[res.lock] # EINPROG THEN sb_status
                    ELSE [sb_status EXCEPT ![res.lock] = res.status]

\* The lksb is copied for every result.
Copied(res) == [sb_status EXCEPT ![res.lock] = res.status]

do_dlm_dispatch ==
    /\ Reads /\ ~cancel /\ results # <<>>
    /\ \E res \in {Head(results)} : /\ sb_status' = Copied(res)
                                    /\ stack' = stack \o Called(res)
    /\ results' = Tail(results)
    /\ UNCHANGED <<default_ls, tid, fd, cancel, pc, mutex, op, held, answer, bounds>>

At(at) == stack' = [stack EXCEPT ![Len(stack)].at = at]

\* pthread_mutex_lock, pthread_cond_signal, pthread_mutex_unlock
sync_ast_routine ==
    /\ IsTop("sync")
    /\ \E t \in {Top.lock} :
         \/ /\ Top.at = "lock" /\ mutex[t] = "free" /\ mutex' = [mutex EXCEPT ![t] = "ast"]
            /\ At("signal") /\ UNCHANGED pc
         \/ /\ Top.at = "signal" /\ At("unlock")
            /\ pc' = IF pc[t] = "waiting" THEN [pc EXCEPT ![t] = "woken"] ELSE pc
            /\ UNCHANGED mutex
         \/ /\ Top.at = "unlock" /\ mutex' = [mutex EXCEPT ![t] = "free"]
            /\ stack' = Pop /\ UNCHANGED pc
    /\ UNCHANGED <<default_ls, tid, fd, cancel, sb_status, kernelVars, bounds>>

\* An AST of the application makes a synchronous call: no wait on lwait in this thread.
sync_write_recv(what) ==
    /\ default_ls /\ IsTop("user") /\ ~InCall("recv") /\ Counted(what)
    /\ Write("recv", what)
    /\ pc' = [pc EXCEPT !["recv"] = "loop"]
    /\ stack' = Append(stack, [type |-> "loop", lock |-> "recv", at |-> "lock"])
    /\ UNCHANGED <<default_ls, tid, fd, cancel, mutex, basts, opens>>

\* The loop of do_dlm_dispatch ends.
loop_ends ==
    /\ IsTop("loop") /\ sb_status["recv"] # EINPROG
    /\ pc' = [pc EXCEPT !["recv"] = "returned"] /\ stack' = Pop
    /\ UNCHANGED <<default_ls, tid, fd, cancel, mutex, sb_status, kernelVars, bounds>>

\* An AST gives back what it has locked before it returns.
ast_returns ==
    /\ IsTop("user") /\ (held["recv"] => InCall("recv") \/ ~default_ls)
    /\ stack' = Pop
    /\ UNCHANGED <<default_ls, tid, fd, cancel, pc, mutex, sb_status, kernelVars, bounds>>

Receive == do_dlm_dispatch \/ sync_ast_routine \/ loop_ends

-----------------------------------------------------------------------------
Next == \/ dlm_pthread_init \/ dlm_pthread_cleanup \/ Cancelled \/ ls_pthread_cleanup
        \/ Kernel
        \/ \E t \in Threads : \/ Bast(t) \/ cond_wait(t) \/ wakes(t)
                              \/ \E what \in {"lock", "unlock"} : sync_write(t, what)
        \/ \E c \in Callers : sync_write_fails(c)
        \/ \E what \in {"lock", "unlock"} : dlm_lock(what) \/ sync_write_recv(what)
        \/ Receive \/ ast_returns

\* The threads run and the kernel answers.  The application unlocks what it has locked,
\* and its ASTs return.
Fairness ==
    /\ WF_vars(Kernel) /\ WF_vars(Receive) /\ WF_vars(ast_returns)
    /\ WF_vars(Cancelled \/ ls_pthread_cleanup)
    /\ \A t \in Threads : WF_vars(cond_wait(t) \/ wakes(t)) /\ WF_vars(sync_write(t, "unlock"))
    /\ WF_vars(sync_write_recv("unlock"))

Spec == Init /\ [][Next]_vars /\ Fairness

-----------------------------------------------------------------------------
Frames == [type : {"sync"}, lock : Threads, at : {"lock", "signal", "unlock"}]
            \cup [type : {"user"}, lock : {"async"}, at : {"lock"}]
            \cup [type : {"loop"}, lock : {"recv"}, at : {"lock"}]

Results == [type : {"cast", "bast"}, lock : Locks, status : Status]

\* The state has its types; the receive thread signals other threads, never itself.
TypeOK ==
    /\ default_ls \in BOOLEAN /\ tid \in BOOLEAN /\ fd \in BOOLEAN /\ cancel \in BOOLEAN
    /\ pc \in [Callers -> {"idle", "written", "waiting", "woken", "loop", "returned"}]
    /\ pc["recv"] \in {"idle", "loop", "returned"} /\ \A t \in Threads : pc[t] # "loop"
    /\ mutex \in [Threads -> {"free", "caller", "ast"}]
    /\ stack \in Seq(Frames) /\ sb_status \in [Locks -> Status]
    /\ op \in [Locks -> {"none", "lock", "unlock"}] /\ held \in [Locks -> BOOLEAN]
    /\ answer \in [Locks -> Status] /\ results \in Seq(Results)
    /\ calls \in 0 .. MaxCalls /\ basts \in 0 .. MaxBasts /\ opens \in 0 .. MaxOpens

\* A synchronous call that returns has the status of its own request, which has completed:
\* sync_write and lock_resource wait for the operation, whatever results and blocking ASTs
\* the receive thread reads meanwhile.  It is so when every wakeup is the work of a signal;
\* with spurious ones a call returns before its request has completed.
CompleteOnReturn ==
    \A c \in Callers : pc[c] = "returned" => op[c] = "none" /\ sb_status[c] = answer[c]

\* sync_ast_routine uses a mutex and a condition variable in the frame of the thread that
\* waits: it does not run, and no result for it is left, when the thread has returned.
NoDeadFrame ==
    /\ \A i \in DOMAIN stack : stack[i].type = "sync" => InCall(stack[i].lock)
    /\ \A i \in DOMAIN results :
         results[i].type = "cast" /\ results[i].lock \in Threads => InCall(results[i].lock)

\* Every synchronous call returns: no signal comes before the thread waits for it, and the
\* receive thread, which would wait for itself, reads its own result.
EveryCallReturns == \A c \in Callers : InCall(c) ~> ~InCall(c)
=============================================================================
