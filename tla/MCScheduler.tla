---------------------------- MODULE MCScheduler ----------------------------
(* Constants of the scheduler run.  Two processes, the first with a worker *)
(* (thread 2); mutex m and the condition are in CXL memory, r is private.  *)
EXTENDS Scheduler

SchedType == [m \in Mutexes |-> IF m = "m" THEN "default"
                                ELSE IF m = "r" THEN "recursive" ELSE "errorcheck"]

P(c0, m0, n0, c1, m1, n1, c2, m2, n2) ==
    [t \in Thread |->
        CASE t = 0 -> [calls |-> c0, mutexes |-> m0, max |-> n0]
          [] t = 1 -> [calls |-> c1, mutexes |-> m1, max |-> n1]
          [] t = 2 -> [calls |-> c2, mutexes |-> m2, max |-> n2]]

(* A lock and a condition shared by all threads; crashes in every place.   *)
Contended == P({"create", "join", "lock", "wait"}, {"m"}, 3,
               {"yield", "lock", "unlock", "signal"}, {"m"}, 2,
               {"lock", "unlock"}, {"m"}, 2)

(* Spinning threads, on calls that yield and on plain accesses, a worker,  *)
(* crashes by the program.                                                 *)
Spinning == P({"create", "yield", "crash_self"}, {}, 1, {"yield", "access"}, {}, 0,
              {"sleep"}, {}, 0)

(* A recursive and an error-checking mutex in private memory.              *)
Recursive == P({"create", "init", "lock", "unlock", "wait"}, {"r"}, 5,
               {}, {}, 0,
               {"lock", "trylock", "unlock", "broadcast"}, {"r"}, 3)
ErrorCheck == P({"init", "lock", "unlock", "trylock"}, {"e"}, 4,
                {"unlock", "lock"}, {"e"}, 2, {}, {}, 0)

(* Threads and processes that leave in unusual ways, misused objects.      *)
Leaving == P({"create", "exit", "exit_thread", "lock"}, {"m"}, 2,
             {"trylock", "wait", "timedwait", "destroy", "cond_destroy"}, {"m"}, 2,
             {"lock_crashed", "exit"}, {"m"}, 1)

SchedPrograms == {Contended, Spinning, Recursive, ErrorCheck, Leaving}
=============================================================================
