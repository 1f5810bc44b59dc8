----------------------------- MODULE DataProofs -----------------------------
(***************************************************************************)
(* What holds under the model for every number of native threads, every    *)
(* word size, list of stores and length of a memory function's range: a    *)
(* running context has storage, a load puts the right bytes together, and  *)
(* the pieces of a memory function add up.                                 *)
(***************************************************************************)
EXTENDS MemApi, ReadBytes, NativeThread, LeastNatural, FiniteSetTheorems, TLAPS

----------------------------------------------------------------------------
\* The native threads.

NativeTypeOK ==
    /\ ctx \in Context /\ other \in Context
    /\ tls \in [Context -> Context \cup {NoTls}]
    /\ helper \in [Context -> Helper]
    /\ usable \subseteq Context /\ released \subseteq Created

Unpublished == {"none", "start", "set", "unmade", "absent"}

\* A helper that is there publishes its storage in its second step; the main thread's is
\* recorded by the first swap at the latest.
Published ==
    /\ \A t \in Created : tls[t] = IF helper[t] \in Unpublished THEN NoTls ELSE t
    /\ tls[Main] \in {NoTls, Main}
    /\ ctx # Main => tls[Main] = Main

\* setup_context hands out a context that has storage and has not been cleaned up;
\* a context that has been is out of reach, and its helper has ended when it is
\* joined.
Handed ==
    /\ \A t \in usable \ {Main} : tls[t] = t
    /\ \A t \in released : helper[t] = "done" /\ t \notin usable
    /\ pos \in {"new", "test", "wait", "woken"} => other \in Created \ released
    /\ pos = "join" => other \in Created \ usable

\* The fs register follows the context, and a context never joins the helper on
\* whose storage it runs.
OnOwnStorage ==
    pos # "lost" => fs = ctx /\ ctx \notin released /\ (ctx # Main => tls[ctx] = ctx)

NativeInv == NativeTypeOK /\ Published /\ Handed /\ OnOwnStorage

\* The contexts are numbers; NoTls is none of them.
LEMMA ContextFacts ==
    /\ Main \in Context /\ Main \notin Created /\ Created \subseteq Context
    /\ Context = Created \cup {Main} /\ NoTls \notin Context
  BY ContextAssumption DEF Main, Context, Created, NoTls

\* The invariant holds before the functions of the C library are looked up.
LEMMA InitNative == ASSUME NativeInit PROVE NativeInv
<1>1. NativeTypeOK
  BY ContextFacts DEF NativeInit, NativeTypeOK, Helper
<1>2. QED
  BY <1>1, ContextFacts DEF NativeInit, NativeInv, Published, Unpublished, Handed, OnOwnStorage

\* The steps of a helper.
LEMMA HelperStep ==
    ASSUME NativeInv, NEW t \in Created,
           \/ HelperLock(t) \/ HelperSetTls(t) \/ HelperUnlock(t)
           \/ HelperSignal(t) \/ HelperWakes(t) \/ HelperEnds(t)
    PROVE  NativeInv'
<1>1. /\ UNCHANGED <<ctx, other, fs, usable, released>>
      /\ t \in Context /\ t # Main
  BY ContextFacts DEF HelperLock, HelperSetTls, HelperUnlock, HelperSignal, HelperWakes, HelperEnds
<1>2. \E s \in Helper \ {"none"} : helper' = [helper EXCEPT ![t] = s]
  BY DEF HelperLock, HelperSetTls, HelperUnlock, HelperSignal, HelperWakes, HelperEnds, Helper
<1>3. /\ helper' \in [Context -> Helper] /\ helper[t] # "done"
      /\ \A u \in Context \ {t} : helper'[u] = helper[u]
  BY <1>1, <1>2 DEF NativeInv, NativeTypeOK, HelperLock, HelperSetTls, HelperUnlock, HelperSignal,
                    HelperWakes, HelperEnds
<1>4. tls' = IF HelperSetTls(t) THEN [tls EXCEPT ![t] = t] ELSE tls
  BY DEF HelperLock, HelperSetTls, HelperUnlock, HelperSignal, HelperWakes, HelperEnds
<1>5. /\ tls' \in [Context -> Context \cup {NoTls}]
      /\ \A u \in Context \ {t} : tls'[u] = tls[u]
  BY <1>1, <1>4 DEF NativeInv, NativeTypeOK
<1>6. tls'[t] = IF helper'[t] \in Unpublished THEN NoTls ELSE t
  <2>1. CASE HelperSetTls(t)
    BY <1>1, <1>4, <2>1 DEF HelperSetTls, NativeInv, NativeTypeOK, Unpublished
  <2>2. CASE ~HelperSetTls(t)
    <3>1. \/ helper[t] = "start" /\ helper'[t] = "set"
          \/ helper[t] \notin Unpublished /\ helper'[t] \notin Unpublished
      BY <1>1, <2>2 DEF HelperLock, HelperUnlock, HelperSignal, HelperWakes, HelperEnds, NativeInv,
                        NativeTypeOK, Unpublished
    <3>2. QED
      BY <1>4, <2>2, <3>1 DEF NativeInv, Published, Unpublished
  <2>3. QED
    BY <2>1, <2>2
<1>7. \/ pos' = pos
      \/ pos = "wait" /\ pos' = "woken"
  BY DEF HelperLock, HelperSetTls, HelperUnlock, HelperSignal, HelperWakes, HelperEnds
<1>8. \A u \in Context : tls[u] = u => tls'[u] = u
  BY <1>4, <1>5 DEF NativeInv, NativeTypeOK
<1>9. Published'
  BY <1>1, <1>3, <1>5, <1>6, ContextFacts DEF NativeInv, Published
<1>10. Handed'
  <2>1. \A u \in usable \ {Main} : tls'[u] = u
    BY <1>1, <1>8, ContextFacts DEF NativeInv, NativeTypeOK, Handed
  <2>2. \A u \in released : helper'[u] = "done" /\ u \notin usable
    BY <1>1, <1>3, ContextFacts DEF NativeInv, NativeTypeOK, Handed
  <2>3. QED
    BY <1>1, <1>7, <2>1, <2>2 DEF NativeInv, Handed
<1>11. QED
  BY <1>1, <1>3, <1>5, <1>7, <1>8, <1>9, <1>10 DEF NativeInv, NativeTypeOK, OnOwnStorage

\* A swap records the storage of the context that gives way and takes that of the
\* next one; one that was not made has none.
LEMMA SwapStep == ASSUME NativeInv, NEW u \in Context, Swap(u) PROVE NativeInv'
<1>1. /\ ctx' = u /\ u \in usable \cup Unmade /\ u # ctx /\ ctx \in Context
      /\ pos' = IF u \in Unmade THEN "lost" ELSE "user"
      /\ fs' = tls'[u] /\ fs = ctx /\ (ctx # Main => tls[ctx] = ctx)
      /\ UNCHANGED <<other, helper, usable, released>>
  BY DEF Swap, NativeInv, NativeTypeOK, OnOwnStorage
<1>2. tls' = IF tls[ctx] = NoTls THEN [tls EXCEPT ![ctx] = ctx] ELSE tls
  BY <1>1 DEF Swap
<1>3. tls' \in [Context -> Context \cup {NoTls}] /\ \A t \in Context \ {ctx} : tls'[t] = tls[t]
  BY <1>1, <1>2 DEF NativeInv, NativeTypeOK
<1>4. tls'[ctx] = IF tls[ctx] = NoTls THEN ctx ELSE tls[ctx]
  BY <1>1, <1>2 DEF NativeInv, NativeTypeOK
<1>5. \A t \in Created : tls'[t] = tls[t]
  BY <1>1, <1>3, <1>4, ContextFacts
<1>6. tls'[Main] \in {NoTls, Main} /\ (u # Main => tls'[Main] = Main)
  <2>1. CASE ctx = Main
    BY <1>4, <2>1, ContextFacts DEF NativeInv, Published
  <2>2. CASE ctx # Main
    BY <1>3, <2>2, ContextFacts DEF NativeInv, Published
  <2>3. QED
    BY <2>1, <2>2
<1>7. u \notin Unmade => tls'[u] = u
  <2>1. CASE u = Main
    BY <1>1, <1>3, <2>1, ContextFacts DEF NativeInv, Published
  <2>2. CASE u # Main
    BY <1>1, <1>3, <2>2, ContextFacts DEF NativeInv, Handed
  <2>3. QED
    BY <2>1, <2>2
<1>8. u \notin released
  BY <1>1 DEF NativeInv, Handed, Unmade
<1>9. Published'
  BY <1>1, <1>5, <1>6 DEF NativeInv, Published
<1>10. Handed'
  BY <1>1, <1>5, ContextFacts DEF NativeInv, NativeTypeOK, Handed
<1>11. QED
  BY <1>1, <1>3, <1>7, <1>8, <1>9, <1>10 DEF NativeInv, NativeTypeOK, OnOwnStorage

\* The steps of the main native thread.
LEMMA MainStep ==
    ASSUME NativeInv,
           \/ RealInitAll \/ TakeTlsLock \/ TestTls \/ JoinReturns \/ SpuriousWakeUp
           \/ \E t \in Created :
                SetupContext(t) \/ SetupContextFails(t) \/ Cleanup(t) \/ CleanupUnmade(t)
    PROVE  NativeInv'
<1>1. CASE RealInitAll
  <2>1. /\ UNCHANGED <<ctx, other, tls, fs, helper, usable, released>>
        /\ pos = "load" /\ pos' \in {"load", "user", "exit"}
    BY <1>1 DEF RealInitAll
  <2>2. QED
    BY <2>1 DEF NativeInv, NativeTypeOK, Published, Handed, OnOwnStorage
<1>2. CASE TakeTlsLock \/ SpuriousWakeUp
  <2>1. /\ UNCHANGED <<ctx, other, tls, fs, helper, usable, released>>
        /\ pos \in {"new", "test", "wait", "woken"} /\ pos' \in {"test", "woken"}
    BY <1>2 DEF TakeTlsLock, SpuriousWakeUp
  <2>2. QED
    BY <2>1 DEF NativeInv, NativeTypeOK, Published, Handed, OnOwnStorage
<1>3. CASE TestTls
  <2>1. /\ UNCHANGED <<ctx, other, tls, fs, helper, released>> /\ pos = "test"
        /\ other \in Created \ released
    BY <1>3 DEF TestTls, NativeInv, Handed
  <2>2. \/ pos' = "wait" /\ usable' = usable
        \/ pos' = "user" /\ tls[other] # NoTls /\ usable' = usable \cup {other}
    BY <1>3 DEF TestTls
  <2>3. tls[other] # NoTls => tls[other] = other
    BY <2>1 DEF NativeInv, Published
  <2>4. Handed'
    BY <2>1, <2>2, <2>3 DEF NativeInv, Handed
  <2>5. QED
    BY <2>1, <2>2, <2>4, ContextFacts DEF NativeInv, NativeTypeOK, Published, OnOwnStorage
<1>4. CASE JoinReturns
  <2>1. /\ UNCHANGED <<ctx, other, tls, fs, helper, usable>> /\ pos = "join"
        /\ other \in Created \ usable /\ pos' \in {"user", "leave"}
    BY <1>4 DEF JoinReturns, NativeInv, Handed
  <2>2. \/ released' = released
        \/ fs # other /\ helper[other] = "done" /\ released' = released \cup {other}
    BY <1>4 DEF JoinReturns
  <2>3. QED
    BY <2>1, <2>2 DEF NativeInv, NativeTypeOK, Published, Handed, OnOwnStorage
<1>5. ASSUME NEW t \in Created, SetupContext(t) PROVE NativeInv'
  <2>1. /\ UNCHANGED <<ctx, tls, fs, usable, released>> /\ other' = t /\ pos' = "new"
        /\ helper[t] = "none" /\ pos = "user" /\ t \in Context
        /\ \E x \in {"start", "absent"} : helper' = [helper EXCEPT ![t] = x]
    BY <1>5, ContextFacts DEF SetupContext
  <2>2. /\ helper' \in [Context -> Helper] /\ helper'[t] \in {"start", "absent"}
        /\ \A u \in Context \ {t} : helper'[u] = helper[u]
    BY <2>1 DEF NativeInv, NativeTypeOK, Helper
  <2>3. t \notin released
    BY <2>1 DEF NativeInv, Handed
  <2>4. Published'
    BY <2>1, <2>2, ContextFacts DEF NativeInv, Published, Unpublished
  <2>5. Handed'
    BY <2>1, <2>2, <2>3, ContextFacts DEF NativeInv, NativeTypeOK, Handed
  <2>6. QED
    BY <2>1, <2>2, <2>4, <2>5 DEF NativeInv, NativeTypeOK, OnOwnStorage
<1>6. ASSUME NEW t \in Created, Cleanup(t) PROVE NativeInv'
  <2>1. /\ UNCHANGED <<ctx, tls, fs, helper, released>> /\ other' = t /\ pos' = "join"
        /\ pos # "lost" /\ usable' = usable \ {t} /\ t \in Context
    BY <1>6, ContextFacts DEF Cleanup
  <2>2. QED
    BY <2>1 DEF NativeInv, NativeTypeOK, Published, Handed, OnOwnStorage
<1>7. ASSUME NEW t \in Created, SetupContextFails(t) PROVE NativeInv'
  <2>1. /\ UNCHANGED <<ctx, pos, other, tls, fs, usable, released>>
        /\ helper[t] = "none" /\ helper' = [helper EXCEPT ![t] = "unmade"] /\ t \in Context
    BY <1>7, ContextFacts DEF SetupContextFails
  <2>2. /\ helper' \in [Context -> Helper] /\ helper'[t] = "unmade"
        /\ \A u \in Context \ {t} : helper'[u] = helper[u]
    BY <2>1 DEF NativeInv, NativeTypeOK, Helper
  <2>3. Published'
    BY <2>1, <2>2, ContextFacts DEF NativeInv, Published, Unpublished
  <2>4. Handed'
    BY <2>1, <2>2, ContextFacts DEF NativeInv, NativeTypeOK, Handed
  <2>5. QED
    BY <2>1, <2>2, <2>3, <2>4 DEF NativeInv, NativeTypeOK, OnOwnStorage
<1>8. ASSUME NEW t \in Created, CleanupUnmade(t) PROVE NativeInv'
  <2>1. pos' = "lost" /\ UNCHANGED <<ctx, other, tls, fs, helper, usable, released>>
    BY <1>8 DEF CleanupUnmade
  <2>2. QED
    BY <2>1 DEF NativeInv, NativeTypeOK, Published, Handed, OnOwnStorage
<1>9. QED
  BY <1>1, <1>2, <1>3, <1>4, <1>5, <1>6, <1>7, <1>8

\* For any number of threads, the code that runs has thread-local storage, of a
\* helper that has published it (setup_context) and has not been joined (cleanup),
\* until the scheduler uses a thread for which getcontext failed.
THEOREM StorageStaysValid == NativeSpec => []StorageValid
<1>1. NativeInit => NativeInv
  BY InitNative
<1>2. ASSUME NativeInv, [NativeNext]_nativeVars PROVE NativeInv'
  <2>1. CASE NativeNext
    BY <1>2, <2>1, HelperStep, SwapStep, MainStep DEF NativeNext, NativeStep
  <2>2. CASE UNCHANGED nativeVars
    BY <1>2, <2>2 DEF nativeVars, NativeInv, NativeTypeOK, Published, Handed, OnOwnStorage
  <2>3. QED
    BY <1>2, <2>1, <2>2
<1>3. NativeInv => StorageValid
  BY ContextFacts DEF NativeInv, NativeTypeOK, OnOwnStorage, StorageValid
<1>4. QED
  BY <1>1, <1>2, <1>3, PTL DEF NativeSpec
----------------------------------------------------------------------------
\* The bytes of a load.

Store == Access \cup {InitialStore}

\* The bytes the loop of get_overlaps goes over, whether they are open or not.
Reaches(w, r, b) ==
    LET offset == IF w.at > r.at THEN w.at - r.at ELSE 0
    IN  /\ w.at < r.at + r.size /\ r.at < w.at + w.size
        /\ b \in offset .. offset + w.size - 1

\* The bytes that have no store yet.
OpenBytes == {b \in DOMAIN rf : rf[b] = 0}

\* No surviving store from n on reaches byte b.
NoneFrom(n, b) == \A k \in n .. Len(wrs) : k \notin lost => ~Reaches(wrs[k], rd, b)

ListBytesOK ==
    /\ wrs \in Seq(Store) /\ wrs # <<>>
    /\ wrs[1] = InitialStore
    /\ lost \subseteq 2 .. Len(wrs)

\* Before the load: nothing has been looked at.
NotLoading == itr = 0 /\ rf = <<>> /\ lost = {} /\ value = <<>>

\* numslotsleft counts the open bytes; an open byte is one that no surviving store
\* looked at so far reaches, and any other belongs to the newest that does.
Loading ==
    /\ rd \in Access
    /\ rf \in [0 .. rd.size - 1 -> 0 .. Len(wrs)]
    /\ itr \in 0 .. Len(wrs)
    /\ slots = Cardinality(OpenBytes)
    /\ \A k \in lost : k > itr
    /\ \A b \in 0 .. rd.size - 1 :
         IF rf[b] = 0 THEN NoneFrom(itr + 1, b)
         ELSE /\ rf[b] > itr /\ rf[b] \notin lost
              /\ Reaches(wrs[rf[b]], rd, b)
              /\ NoneFrom(rf[b] + 1, b)
    /\ value # <<>> => slots = 0 /\ value = get_read_value(rd, rf)

ReadInv == ListBytesOK /\ (IF rd = NoLoad THEN NotLoading ELSE Loading)

\* Addresses and sizes are numbers, and the sizes are not 0.
LEMMA AccessFacts ==
    /\ NoLoad \notin Access
    /\ \A w \in Store : /\ w.at \in Nat /\ w.size \in Nat \ {0}
                        /\ w.at + w.size <= WordBytes
    /\ \A r \in Access : r.size \in {1, 2, 4, 8} /\ r.at \in 0 .. WordBytes - 1
<1>1. WordBytes \in Nat \ {0}
  BY ReadAssumption
<1>2. \A r \in Access : /\ r.size \in {1, 2, 4, 8} /\ r.at \in 0 .. WordBytes - 1
                        /\ r.at + r.size <= WordBytes
  BY DEF Access
<1>3. NoLoad.size = 0
  BY DEF NoLoad
<1>4. NoLoad \notin Access
  BY <1>2, <1>3
<1>5. /\ InitialStore.at \in Nat /\ InitialStore.size \in Nat \ {0}
      /\ InitialStore.at + InitialStore.size <= WordBytes
  BY <1>1 DEF InitialStore
<1>6. \A r \in Access : r.at \in Nat /\ r.size \in Nat \ {0}
  BY <1>1, <1>2
<1>7. QED
  BY <1>2, <1>4, <1>5, <1>6 DEF Store

\* The stores of the list.
LEMMA StoresOfList ==
    ASSUME ListBytesOK, NEW k \in 1 .. Len(wrs)
    PROVE  /\ wrs[k] \in Store /\ wrs[k].at \in Nat /\ wrs[k].size \in Nat \ {0}
           /\ wrs[k].at + wrs[k].size <= WordBytes
           /\ Len(wrs) \in Nat /\ 1 \in 1 .. Len(wrs)
<1>1. wrs[k] \in Store /\ Len(wrs) \in Nat /\ 1 \in 1 .. Len(wrs)
  BY DEF ListBytesOK
<1>2. QED
  BY <1>1, AccessFacts

\* get_overlaps takes the open bytes that the store reaches.
LEMMA OverlapsAre ==
    ASSUME NEW w \in Store, NEW r \in Access, NEW from \in [0 .. r.size - 1 -> Nat]
    PROVE  get_overlaps(w, r, from) = {b \in 0 .. r.size - 1 : Reaches(w, r, b) /\ from[b] = 0}
<1>1. w.at \in Nat /\ w.size \in Nat \ {0} /\ r.at \in Nat /\ r.size \in Nat \ {0}
  BY AccessFacts DEF Store
<1> DEFINE offset == IF w.at > r.at THEN w.at - r.at ELSE 0
<1>2. offset \in Nat
  BY <1>1
<1>3. CASE w.at >= r.at + r.size \/ r.at >= w.at + w.size
  <2>1. get_overlaps(w, r, from) = {}
    BY <1>3 DEF get_overlaps
  <2>2. \A b : ~Reaches(w, r, b)
    BY <1>1, <1>3 DEF Reaches
  <2>3. QED
    BY <2>1, <2>2
<1>4. CASE ~(w.at >= r.at + r.size \/ r.at >= w.at + w.size)
  <2>1. get_overlaps(w, r, from) =
          {b \in offset .. offset + w.size - 1 : b < r.size /\ from[b] = 0}
    BY <1>4 DEF get_overlaps
  <2>2. \A b : Reaches(w, r, b) <=> b \in offset .. offset + w.size - 1
    BY <1>1, <1>4 DEF Reaches
  <2>3. \A b : (b \in offset .. offset + w.size - 1 /\ b < r.size)
                <=> (b \in 0 .. r.size - 1 /\ b \in offset .. offset + w.size - 1)
    <3> HIDE DEF offset
    <3>1. QED
      BY <1>1, <1>2
  <2> HIDE DEF offset
  <2>4. QED
    BY <2>1, <2>2, <2>3, Zenon
<1>5. QED
  BY <1>3, <1>4

\* A load starts with all its bytes open.
LEMMA StartLoadStep ==
    ASSUME ReadInv, NEW r \in Access, StartLoad(r) PROVE ReadInv'
<1>1. /\ rd = NoLoad /\ rd' = r /\ rf' = [b \in 0 .. r.size - 1 |-> 0] /\ slots' = r.size
      /\ itr' = Len(wrs) /\ UNCHANGED <<wrs, lost, value>>
      /\ lost = {} /\ value = <<>>
  BY DEF StartLoad, ReadInv, NotLoading
<1>2. Len(wrs) \in Nat /\ r.size \in Nat \ {0} /\ r # NoLoad
  <2>1. wrs \in Seq(Store)
    BY DEF ReadInv, ListBytesOK
  <2>2. r.size \in Nat \ {0} /\ r # NoLoad
    BY AccessFacts DEF Store
  <2>3. QED
    BY <2>1, <2>2
<1>3. OpenBytes' = 0 .. r.size - 1
  BY <1>1 DEF OpenBytes
<1>4. Cardinality(0 .. r.size - 1) = r.size
  <2>1. 0 \in Int /\ r.size - 1 \in Int /\ ~(0 > r.size - 1) /\ r.size - 1 - 0 + 1 = r.size
    BY <1>2
  <2>2. \A m, n \in Int : Cardinality(m .. n) = IF m > n THEN 0 ELSE n - m + 1
    BY FS_Interval
  <2>3. QED
    BY <2>1, <2>2
<1>5. \A b \in 0 .. r.size - 1 : rf'[b] = 0 /\ NoneFrom(itr + 1, b)'
  BY <1>1, <1>2 DEF NoneFrom
<1>6. Loading'
  BY <1>1, <1>2, <1>3, <1>4, <1>5 DEF Loading
<1>7. ListBytesOK'
  BY <1>1 DEF ReadInv, ListBytesOK
<1>8. QED
  BY <1>1, <1>2, <1>6, <1>7 DEF ReadInv

\* A store is made before the load.
LEMMA AddStoreStep ==
    ASSUME ReadInv, NEW w \in Access, AddStore(w) PROVE ReadInv'
<1>1. /\ rd = NoLoad /\ wrs' = Append(wrs, w) /\ UNCHANGED <<rd, rf, slots, itr, lost, value>>
      /\ wrs \in Seq(Store) /\ wrs # <<>> /\ wrs[1] = InitialStore /\ w \in Store /\ lost = {}
      /\ NotLoading
  BY DEF AddStore, ReadInv, ListBytesOK, Store, NotLoading
<1>2. wrs' \in Seq(Store) /\ wrs' # <<>> /\ wrs'[1] = wrs[1]
  BY <1>1
<1>3. QED
  BY <1>1, <1>2 DEF ReadInv, ListBytesOK, NotLoading
\* A store that persisted takes the open bytes it reaches.
LEMMA LookKeepStep == ASSUME ReadInv, LookKeep PROVE ReadInv'
<1>1. itr > 0 /\ itr' = itr - 1 /\ UNCHANGED <<wrs, rd, lost, value>> /\ slots > 0
  BY DEF LookKeep
<1>2. rd # NoLoad /\ Loading /\ ListBytesOK
  BY <1>1 DEF ReadInv, NotLoading
<1> DEFINE bytes == get_overlaps(wrs[itr], rd, rf)
<1>3. /\ rf' = [b \in DOMAIN rf |-> IF b \in bytes THEN itr ELSE rf[b]]
      /\ slots' = slots - Cardinality(bytes)
  BY DEF LookKeep
<1>4. /\ Len(wrs) \in Nat /\ itr \in 1 .. Len(wrs) /\ itr \in Nat /\ rd \in Access
      /\ rd.size \in Nat /\ rf \in [0 .. rd.size - 1 -> 0 .. Len(wrs)]
  <2>1. wrs \in Seq(Store) /\ rd \in Access /\ itr \in 0 .. Len(wrs)
    BY <1>2 DEF ListBytesOK, Loading
  <2>2. Len(wrs) \in Nat
    BY <2>1
  <2>3. rd.size \in Nat
    BY <2>1, AccessFacts DEF Store
  <2>4. QED
    BY <1>1, <1>2, <2>1, <2>2, <2>3 DEF Loading
<1>5. bytes = {b \in 0 .. rd.size - 1 : Reaches(wrs[itr], rd, b) /\ rf[b] = 0}
  <2>1. wrs[itr] \in Store /\ rf \in [0 .. rd.size - 1 -> Nat]
    BY <1>2, <1>4, StoresOfList
  <2>2. QED
    BY <1>4, <2>1, OverlapsAre
<1> HIDE DEF bytes
<1>6. itr \notin lost
  BY <1>2, <1>4 DEF Loading
<1>7. /\ rf' \in [0 .. rd.size - 1 -> 0 .. Len(wrs)]
      /\ \A b \in 0 .. rd.size - 1 : rf'[b] = IF b \in bytes THEN itr ELSE rf[b]
  BY <1>3, <1>4
<1>8. slots' = Cardinality(OpenBytes')
  <2>1. OpenBytes = {b \in 0 .. rd.size - 1 : rf[b] = 0}
    BY <1>4 DEF OpenBytes
  <2>2. OpenBytes' = {b \in 0 .. rd.size - 1 : rf'[b] = 0}
    BY <1>7 DEF OpenBytes
  <2>3. OpenBytes' = OpenBytes \ bytes /\ OpenBytes \cap bytes = bytes
    BY <1>4, <1>5, <1>7, <2>1, <2>2
  <2>4. IsFiniteSet(OpenBytes)
    <3>1. 0 \in Int /\ rd.size - 1 \in Int
      BY <1>4
    <3>2. IsFiniteSet(0 .. rd.size - 1)
      BY <3>1, FS_Interval
    <3>3. QED
      BY <2>1, <3>2, FS_Subset
  <2>5. Cardinality(OpenBytes \ bytes) = Cardinality(OpenBytes) - Cardinality(OpenBytes \cap bytes)
    BY <2>4, FS_Difference
  <2>6. slots = Cardinality(OpenBytes)
    BY <1>2 DEF Loading
  <2>7. QED
    BY <1>3, <2>3, <2>5, <2>6
<1>9. ASSUME NEW b \in 0 .. rd.size - 1
      PROVE  IF rf'[b] = 0 THEN NoneFrom(itr + 1, b)'
             ELSE /\ rf'[b] > itr' /\ rf'[b] \notin lost
                  /\ Reaches(wrs[rf'[b]], rd, b)
                  /\ NoneFrom(rf[b] + 1, b)'
  <2>1. CASE rf[b] # 0
    <3>1. rf'[b] = rf[b] /\ rf[b] \in Nat /\ rf[b] > itr /\ rf[b] \notin lost
          /\ Reaches(wrs[rf[b]], rd, b) /\ NoneFrom(rf[b] + 1, b)
      BY <1>2, <1>4, <1>5, <1>7, <2>1 DEF Loading
    <3>2. NoneFrom(rf[b] + 1, b)'
      BY <1>1, <3>1 DEF NoneFrom
    <3>3. rf'[b] # 0 /\ rf'[b] > itr'
      BY <1>1, <1>4, <2>1, <3>1
    <3>4. QED
      BY <3>1, <3>2, <3>3
  <2>2. CASE rf[b] = 0 /\ Reaches(wrs[itr], rd, b)
    <3>1. rf'[b] = itr /\ itr # 0 /\ itr > itr'
      BY <1>1, <1>4, <1>5, <1>7, <2>2
    <3>2. NoneFrom(itr + 1, b)
      BY <1>2, <2>2 DEF Loading
    <3>3. NoneFrom(rf[b] + 1, b)'
      BY <1>1, <3>1, <3>2 DEF NoneFrom
    <3>4. QED
      BY <1>6, <2>2, <3>1, <3>3
  <2>3. CASE rf[b] = 0 /\ ~Reaches(wrs[itr], rd, b)
    <3>1. rf'[b] = 0
      BY <1>5, <1>7, <2>3
    <3>2. NoneFrom(itr + 1, b)
      BY <1>2, <2>3 DEF Loading
    <3>3. \A k \in itr .. Len(wrs) : k = itr \/ k \in itr + 1 .. Len(wrs)
      BY <1>4
    <3>4. itr' + 1 = itr
      BY <1>1, <1>4
    <3>5. NoneFrom(itr + 1, b)'
      BY <1>1, <2>3, <3>2, <3>3, <3>4 DEF NoneFrom
    <3>6. QED
      BY <3>1, <3>5
  <2>4. QED
    BY <2>1, <2>2, <2>3
<1>10. value = <<>>
  BY <1>1, <1>2 DEF Loading
<1>11. itr' \in 0 .. Len(wrs) /\ \A k \in lost : k > itr'
  <2>1. lost \subseteq 2 .. Len(wrs)
    BY <1>2 DEF ListBytesOK
  <2>2. \A k \in lost : k > itr /\ k \in Nat
    BY <1>2, <1>4, <2>1 DEF Loading
  <2>3. QED
    BY <1>1, <1>4, <2>2
<1>12. Loading'
  BY <1>1, <1>4, <1>7, <1>8, <1>9, <1>10, <1>11 DEF Loading
<1>13. QED
  BY <1>1, <1>2, <1>12 DEF ReadInv, ListBytesOK

\* A lost store leaves rf and numslotsleft as they were.
LEMMA LookLostStep == ASSUME ReadInv, LookLost PROVE ReadInv'
<1>1. /\ itr > 1 /\ itr' = itr - 1 /\ UNCHANGED <<wrs, rd, rf, slots, value>> /\ slots > 0
      /\ lost' = lost \cup {itr}
  BY DEF LookLost
<1>2. rd # NoLoad /\ Loading /\ ListBytesOK
  BY <1>1 DEF ReadInv, NotLoading
<1>3. /\ wrs \in Seq(Store) /\ rd \in Access /\ itr \in 0 .. Len(wrs)
      /\ rf \in [0 .. rd.size - 1 -> 0 .. Len(wrs)] /\ lost \subseteq 2 .. Len(wrs)
  BY <1>2 DEF ListBytesOK, Loading
<1>4. Len(wrs) \in Nat /\ itr \in Nat /\ itr \in 2 .. Len(wrs)
  BY <1>1, <1>3
<1>5. ListBytesOK'
  BY <1>1, <1>2, <1>4 DEF ListBytesOK
<1>7. ASSUME NEW b \in 0 .. rd.size - 1, rf[b] = 0 PROVE NoneFrom(itr + 1, b)'
  <2>1. NoneFrom(itr + 1, b)
    BY <1>2, <1>7 DEF Loading
  <2>2. \A k \in itr .. Len(wrs) : k = itr \/ k \in itr + 1 .. Len(wrs)
    BY <1>4
  <2>3. itr' + 1 = itr
    BY <1>1, <1>4
  <2>4. QED
    BY <1>1, <2>1, <2>2, <2>3 DEF NoneFrom
<1>8. ASSUME NEW b \in 0 .. rd.size - 1, rf[b] # 0
      PROVE  /\ rf[b] > itr' /\ rf[b] \notin lost' /\ Reaches(wrs[rf[b]], rd, b)
             /\ NoneFrom(rf[b] + 1, b)'
  <2>1. /\ rf[b] \in Nat /\ rf[b] > itr /\ rf[b] \notin lost /\ Reaches(wrs[rf[b]], rd, b)
        /\ NoneFrom(rf[b] + 1, b)
    BY <1>2, <1>3, <1>4, <1>8 DEF Loading
  <2>2. rf[b] > itr' /\ rf[b] \notin lost'
    BY <1>1, <1>4, <2>1
  <2>3. NoneFrom(rf[b] + 1, b)'
    BY <1>1, <2>1 DEF NoneFrom
  <2>4. QED
    BY <2>1, <2>2, <2>3
<1>9. itr' \in 0 .. Len(wrs) /\ \A k \in lost' : k > itr'
  <2>1. \A k \in lost : k > itr /\ k \in Nat
    BY <1>2, <1>3, <1>4 DEF Loading
  <2>2. QED
    BY <1>1, <1>4, <2>1
<1>10. value = <<>> /\ slots = Cardinality(OpenBytes) /\ OpenBytes' = OpenBytes
  BY <1>1, <1>2 DEF Loading, OpenBytes
<1>11. Loading'
  BY <1>1, <1>3, <1>7, <1>8, <1>9, <1>10 DEF Loading
<1>12. QED
  BY <1>1, <1>2, <1>5, <1>11 DEF ReadInv

\* The value is put together when no byte is open.
LEMMA ReturnLoadStep == ASSUME ReadInv, ReturnLoad PROVE ReadInv'
<1>1. /\ rd # NoLoad /\ slots = 0 /\ value' = get_read_value(rd, rf)
      /\ UNCHANGED <<wrs, rd, rf, slots, itr, lost>> /\ Loading /\ ListBytesOK
  BY DEF ReturnLoad, ReadInv
<1>2. get_read_value(rd, rf)' = get_read_value(rd, rf)
  BY <1>1 DEF get_read_value, ByteOf
<1>3. Loading'
  BY <1>1, <1>2 DEF Loading, OpenBytes, NoneFrom
<1>4. QED
  BY <1>1, <1>3 DEF ReadInv, ListBytesOK

\* The account of the walk holds throughout.
LEMMA ReadInvariant == ReadSpec => []ReadInv
<1>1. ASSUME ReadInit PROVE ReadInv
  <2>1. wrs = <<InitialStore>> /\ InitialStore \in Store
    BY <1>1 DEF ReadInit, Store
  <2>2. wrs \in Seq(Store) /\ wrs # <<>> /\ wrs[1] = InitialStore
    BY <2>1
  <2>3. QED
    BY <1>1, <2>2 DEF ReadInit, ReadInv, ListBytesOK, NotLoading
<1>2. ASSUME ReadInv, [ReadNext]_readVars PROVE ReadInv'
  <2>1. CASE ReadNext
    BY <1>2, <2>1, AddStoreStep, StartLoadStep, LookKeepStep, LookLostStep, ReturnLoadStep
    DEF ReadNext
  <2>2. CASE UNCHANGED readVars
    <3>1. UNCHANGED <<wrs, rd, rf, slots, itr, lost, value>>
      BY <2>2 DEF readVars
    <3>2. get_read_value(rd, rf)' = get_read_value(rd, rf) /\ OpenBytes' = OpenBytes
      BY <3>1 DEF get_read_value, ByteOf, OpenBytes
    <3>3. Loading => Loading'
      BY <3>1, <3>2 DEF Loading, NoneFrom
    <3>4. QED
      BY <1>2, <3>1, <3>3 DEF ReadInv, ListBytesOK, NotLoading
  <2>3. QED
    BY <1>2, <2>1, <2>2
<1>3. QED
  BY <1>1, <1>2, PTL DEF ReadSpec

\* A store reaches the bytes it covers and the ones it claims behind its own end.
LEMMA ReachSplit ==
    ASSUME ListBytesOK, rd \in Access, NEW k \in 1 .. Len(wrs), k \notin lost,
           NEW b \in 0 .. rd.size - 1
    PROVE  Reaches(wrs[k], rd, b) <=> Covers(k, rd.at + b) \/ OverReaches(k, rd.at + b)
<1>1. /\ wrs[k].at \in Nat /\ wrs[k].size \in Nat \ {0} /\ rd.at \in Nat /\ rd.size \in Nat
      /\ b \in Nat /\ b < rd.size
  BY StoresOfList, AccessFacts DEF Store
<1>2. ASSUME NEW p \in Nat, NEW q \in Nat \ {0}, NEW x \in Nat, NEW y \in Nat, NEW c \in Nat,
             c < y, p > x
      PROVE  (p < x + y /\ x < p + q /\ c \in p - x .. p - x + q - 1) <=> x + c \in p .. p + q - 1
  BY <1>2
<1>3. ASSUME NEW p \in Nat, NEW q \in Nat \ {0}, NEW x \in Nat, NEW y \in Nat, NEW c \in Nat,
             c < y, ~(p > x)
      PROVE  (p < x + y /\ x < p + q /\ c \in 0 .. 0 + q - 1)
                 <=> \/ x + c \in p .. p + q - 1
                     \/ p < x /\ x < p + q /\ x + c \in p + q .. x + q - 1
  BY <1>3
<1>4. CASE wrs[k].at > rd.at
  <2>1. ~(wrs[k].at < rd.at)
    BY <1>1, <1>4
  <2>2. Reaches(wrs[k], rd, b) <=> rd.at + b \in wrs[k].at .. wrs[k].at + wrs[k].size - 1
    BY <1>1, <1>2, <1>4 DEF Reaches
  <2>3. QED
    BY <2>1, <2>2, Zenon DEF Covers, OverReaches
<1>5. CASE ~(wrs[k].at > rd.at)
  <2>1. Reaches(wrs[k], rd, b)
          <=> \/ rd.at + b \in wrs[k].at .. wrs[k].at + wrs[k].size - 1
              \/ /\ wrs[k].at < rd.at /\ rd.at < wrs[k].at + wrs[k].size
                 /\ rd.at + b \in wrs[k].at + wrs[k].size .. rd.at + wrs[k].size - 1
    BY <1>1, <1>3, <1>5 DEF Reaches
  <2>2. QED
    BY <2>1, Zenon DEF Covers, OverReaches
<1>6. QED
  BY <1>4, <1>5

\* The initial store cannot be lost, so every byte has a newest surviving store.
LEMMA NewestExists ==
    ASSUME ListBytesOK, rd \in Access, NEW b \in 0 .. rd.size - 1
    PROVE  /\ NewestOf(rd.at + b) \in 1 .. Len(wrs)
           /\ Covers(NewestOf(rd.at + b), rd.at + b)
           /\ \A k \in NewestOf(rd.at + b) + 1 .. Len(wrs) : ~Covers(k, rd.at + b)
<1> DEFINE a == rd.at + b
           T == {n \in 1 .. Len(wrs) : Covers(n, a)}
<1>1. Len(wrs) \in Nat /\ 1 \in 1 .. Len(wrs) /\ wrs[1] = InitialStore /\ 1 \notin lost
  BY DEF ListBytesOK
<1>2. rd.at \in Nat /\ rd.size \in Nat /\ rd.at + rd.size <= WordBytes /\ WordBytes \in Nat
  BY AccessFacts, ReadAssumption DEF Store
<1>3. Covers(1, a)
  BY <1>1, <1>2 DEF Covers, InitialStore
<1>4. T \subseteq Nat /\ T # {} /\ \A n \in T : n <= Len(wrs)
  BY <1>1, <1>3
<1>5. PICK n \in T : \A k \in T : k <= n
  <2> HIDE DEF T
  <2>1. QED
    BY <1>1, <1>4, NatMax
<1>6. n \in 1 .. Len(wrs) /\ Covers(n, a) /\ \A k \in n + 1 .. Len(wrs) : ~Covers(k, a)
  BY <1>1, <1>5
<1>7. QED
  BY <1>6 DEF NewestOf

\* Naturally aligned accesses nest or are disjoint: no store claims a byte behind
\* its end.
LEMMA AlignedNests ==
    ASSUME ListBytesOK, rd \in Access, NaturallyAligned, NEW k \in 1 .. Len(wrs),
           NEW b \in 0 .. rd.size - 1
    PROVE  ~OverReaches(k, rd.at + b)
<1> SUFFICES ASSUME OverReaches(k, rd.at + b) PROVE FALSE
  OBVIOUS
<1> DEFINE p == wrs[k].at
           m == wrs[k].size
           q == rd.at
           n == rd.size
<1>1. n \in {1, 2, 4, 8} /\ m \in Nat \ {0} /\ p \in Nat /\ q \in Nat
  BY StoresOfList, AccessFacts DEF Store
<1>2. /\ p \in Nat /\ m \in Nat /\ q \in Nat /\ n \in Nat /\ b \in Nat /\ WordBytes \in Nat
      /\ q + n <= WordBytes /\ b < n
  <2>1. p \in Nat /\ m \in Nat /\ q \in Nat /\ n \in Nat /\ WordBytes \in Nat
    BY <1>1, ReadAssumption
  <2>2. rd \in Store
    BY DEF Store
  <2>3. q + n <= WordBytes
    BY <2>2, AccessFacts
  <2>4. b \in Nat /\ b < n
    BY <2>1
  <2>5. QED
    BY <2>1, <2>3, <2>4
<1>3. p < q /\ q < p + m /\ p + m <= q + b
  BY <1>1 DEF OverReaches
<1>4. p % m = 0 /\ q % n = 0
  BY DEF NaturallyAligned
<1>5. wrs[k] = InitialStore => p = 0 /\ m = WordBytes
  BY DEF InitialStore
<1>6. wrs[k] = InitialStore \/ m \in {1, 2, 4, 8}
  BY StoresOfList, AccessFacts DEF Store
<1> HIDE DEF p, m, q, n
<1>7. p + m < q + n
  BY <1>2, <1>3
<1>8. ~(p = 0 /\ m = WordBytes)
  BY <1>2, <1>7
<1>9. m \in {1, 2, 4, 8}
  BY <1>5, <1>6, <1>8
<1>10. ASSUME NEW s \in {1, 2, 4, 8}, NEW t \in {1, 2, 4, 8}, NEW x \in Nat, NEW y \in Nat,
              x % s = 0, y % t = 0, x < y, y < x + s, x + s < y + t
       PROVE  FALSE
  BY <1>10, SMTT(60)
<1>11. QED
  BY <1>1, <1>2, <1>3, <1>4, <1>7, <1>9, <1>10

\* For every word size and every list of stores: a load returns what the newest
\* surviving store to a byte wrote exactly when no newer store reaches into the load
\* from below and past its own end, and with natural alignment none does.
THEOREM LoadsBytesRight == ReadSpec => []LoadBytesRight
<1>1. ASSUME ReadInv PROVE LoadBytesRight
  <2> DEFINE Right(b) == LET n == NewestOf(rd.at + b)
                         IN  value[b] = ByteOf(n, (rd.at + b) - wrs[n].at)
             Clear(b) == \A k \in NewestOf(rd.at + b) + 1 .. Len(wrs) : ~OverReaches(k, rd.at + b)
  <2> SUFFICES ASSUME value # <<>>, NEW b \in DOMAIN value
               PROVE  (Right(b) <=> Clear(b)) /\ (NaturallyAligned => Right(b))
    BY Zenon DEF LoadBytesRight
  <2> DEFINE n == NewestOf(rd.at + b)
  <2> SUFFICES /\ (value[b] = ByteOf(n, (rd.at + b) - wrs[n].at))
                     <=> (\A k \in n + 1 .. Len(wrs) : ~OverReaches(k, rd.at + b))
               /\ NaturallyAligned => value[b] = ByteOf(n, (rd.at + b) - wrs[n].at)
    BY Zenon
  <2> HIDE DEF Right, Clear
  <2>1. Loading /\ ListBytesOK /\ rd \in Access
    BY <1>1 DEF ReadInv, NotLoading, Loading
  <2>2. /\ value = get_read_value(rd, rf) /\ slots = 0
        /\ rf \in [0 .. rd.size - 1 -> 0 .. Len(wrs)] /\ Len(wrs) \in Nat
        /\ rd.size \in Nat /\ rd.at \in Nat
    <3>1. wrs \in Seq(Store) /\ rd.size \in Nat /\ rd.at \in Nat
      BY <2>1, AccessFacts DEF ListBytesOK, Store
    <3>2. QED
      BY <2>1, <3>1 DEF Loading
  <2>3. b \in 0 .. rd.size - 1 /\ value[b] = ByteOf(rf[b], b + rd.at - wrs[rf[b]].at)
    BY <2>2 DEF get_read_value
  <2>4. rf[b] # 0
    <3>1. IsFiniteSet(OpenBytes)
      <4>1. 0 \in Int /\ rd.size - 1 \in Int /\ OpenBytes \subseteq 0 .. rd.size - 1
        BY <2>2 DEF OpenBytes
      <4>2. IsFiniteSet(0 .. rd.size - 1)
        BY <4>1, FS_Interval
      <4>3. QED
        BY <4>1, <4>2, FS_Subset
    <3>2. Cardinality(OpenBytes) = 0
      BY <2>1, <2>2 DEF Loading
    <3>3. OpenBytes = {}
      BY <3>1, <3>2, FS_EmptySet
    <3>4. QED
      BY <2>2, <2>3, <3>3 DEF OpenBytes
  <2>5. PICK f \in 1 .. Len(wrs) : f = rf[b]
    BY <2>2, <2>3, <2>4
  <2>6. f \notin lost /\ Reaches(wrs[f], rd, b) /\ NoneFrom(f + 1, b)
    BY <2>1, <2>3, <2>4, <2>5 DEF Loading
  <2>7. n \in 1 .. Len(wrs) /\ Covers(n, rd.at + b)
        /\ \A k \in n + 1 .. Len(wrs) : ~Covers(k, rd.at + b)
    BY <2>1, <2>3, NewestExists
  <2> HIDE DEF n
  <2>8. \A k \in 1 .. Len(wrs) :
          k \notin lost =>
              (Reaches(wrs[k], rd, b) <=> Covers(k, rd.at + b) \/ OverReaches(k, rd.at + b))
    BY <2>1, <2>3, ReachSplit
  <2>9. n <= f
    <3>1. Reaches(wrs[n], rd, b) /\ n \notin lost
      BY <2>7, <2>8 DEF Covers
    <3>2. n \notin f + 1 .. Len(wrs)
      BY <2>6, <3>1 DEF NoneFrom
    <3>3. QED
      BY <2>2, <2>7, <3>2
  <2>10. value[b] = ByteOf(f, (rd.at + b) - wrs[f].at)
    <3>1. wrs[f].at \in Nat /\ b \in Nat
      BY <2>1, <2>3, StoresOfList
    <3>2. b + rd.at - wrs[f].at = (rd.at + b) - wrs[f].at
      BY <2>2, <3>1
    <3>3. QED
      BY <2>3, <2>5, <3>2
  <2>11. ASSUME \A k \in n + 1 .. Len(wrs) : ~OverReaches(k, rd.at + b) PROVE f = n
    <3>1. Covers(f, rd.at + b) \/ OverReaches(f, rd.at + b)
      BY <2>6, <2>8
    <3>2. f \notin n + 1 .. Len(wrs)
      BY <2>7, <2>11, <3>1
    <3>3. QED
      BY <2>2, <2>7, <2>9, <3>2
  <2>12. ASSUME value[b] = ByteOf(n, (rd.at + b) - wrs[n].at),
                NEW k \in n + 1 .. Len(wrs), OverReaches(k, rd.at + b)
         PROVE  FALSE
    <3>1. k \in 1 .. Len(wrs) /\ k \notin lost /\ k > n
      BY <2>2, <2>7, <2>12 DEF OverReaches
    <3>2. Reaches(wrs[k], rd, b)
      BY <2>8, <2>12, <3>1
    <3>3. k \notin f + 1 .. Len(wrs)
      BY <2>6, <3>1, <3>2 DEF NoneFrom
    <3>4. n < f
      BY <2>2, <2>7, <3>1, <3>3
    <3>5. ~Covers(f, rd.at + b)
      BY <2>2, <2>7, <3>4
    <3>6. OverReaches(f, rd.at + b)
      BY <2>6, <2>8, <3>5
    <3>7. /\ wrs[f].at \in Nat /\ wrs[f].size \in Nat /\ wrs[n].at \in Nat /\ wrs[n].size \in Nat
          /\ b \in Nat
      BY <2>1, <2>3, <2>7, StoresOfList
    <3>8. ByteOf(f, (rd.at + b) - wrs[f].at) = <<0, 0>>
      <4>1. wrs[f].at + wrs[f].size <= rd.at + b
        BY <2>2, <3>6, <3>7 DEF OverReaches
      <4>2. ~((rd.at + b) - wrs[f].at < wrs[f].size)
        <5>1. ASSUME NEW x \in Nat, NEW y \in Nat, NEW p \in Nat, NEW q \in Nat, p + q <= x + y
              PROVE  ~((x + y) - p < q)
          BY <5>1
        <5>2. QED
          BY <2>2, <3>7, <4>1, <5>1
      <4>3. QED
        BY <4>2 DEF ByteOf
    <3>9. ByteOf(n, (rd.at + b) - wrs[n].at) = <<n, (rd.at + b) - wrs[n].at>>
      <4>1. rd.at + b <= wrs[n].at + wrs[n].size - 1
        BY <2>2, <2>7, <3>7 DEF Covers
      <4>2. (rd.at + b) - wrs[n].at < wrs[n].size
        <5>1. ASSUME NEW x \in Nat, NEW y \in Nat, NEW p \in Nat, NEW q \in Nat, x + y <= p + q - 1
              PROVE  (x + y) - p < q
          BY <5>1
        <5>2. QED
          BY <2>2, <3>7, <4>1, <5>1
      <4>3. QED
        BY <4>2 DEF ByteOf
    <3>10. n # 0
      BY <2>2, <2>7
    <3>11. QED
      BY <2>10, <2>12, <3>8, <3>9, <3>10
  <2>13. ASSUME NaturallyAligned PROVE \A k \in n + 1 .. Len(wrs) : ~OverReaches(k, rd.at + b)
    <3>1. \A k \in n + 1 .. Len(wrs) : k \in 1 .. Len(wrs)
      BY <2>2, <2>7
    <3>2. QED
      BY <2>1, <2>3, <2>13, <3>1, AlignedNests
  <2>14. QED
    BY <2>10, <2>11, <2>12, <2>13
<1>2. QED
  BY <1>1, ReadInvariant, PTL

----------------------------------------------------------------------------
\* The memory functions.

\* The call is one that MemInit makes.
CallOK ==
    /\ call.f \in Copies \cup Fills /\ call.way \in Ways
    /\ call.dst \in Nat /\ call.src \in Nat /\ call.n \in Nat /\ call.c \in 0 .. 255
    /\ call.dst + call.n < MemSize /\ call.src + call.n < MemSize
    /\ call.f # "memset" => call.c = 0
    /\ call.f \in {"memcpy", "strcpy"} => ~Overlap(call)

\* The early memmove that goes downwards.
Down == call.way = "early" /\ call.f = "memmove" /\ call.dst >= call.src

\* The bytes of the destination the loop has been over.
Written(a) ==
    IF Down THEN a \in call.dst + (call.n - i) .. call.dst + call.n - 1
            ELSE a \in call.dst .. call.dst + i - 1

\* What the call should leave in one of them.
Wanted(a) == IF call.f \in Copies THEN Tag(call.src + (a - call.dst)) ELSE call.c

\* The loop has done its part so far and nothing else.
SoFarRight ==
    \A a \in 0 .. MemSize - 1 : mem[a] = IF Written(a) THEN Wanted(a) ELSE Tag(a)

\* memmove upwards over an overlap: the first byte is repeated where the source's
\* byte at the start of the destination should have gone.
SoFarRepeated ==
    /\ \A a \in 0 .. MemSize - 1 : a \notin call.dst .. call.dst + i - 1 => mem[a] = Tag(a)
    /\ i > 0 => mem[call.dst] = Tag(call.src)
    /\ i > call.dst - call.src => mem[call.dst + (call.dst - call.src)] = Tag(call.src)

\* memset: an aligned word is stored at once, its upper half all ones; no piece
\* spans it otherwise.
SoFarOnes ==
    \A j \in 0 .. call.n - 8 :
        Fits(call, j, 8) /\ j < i => j + 8 <= i /\ mem[call.dst + (j + 4)] = 255

\* strcpy: the byte the terminator should go to.
Unended == mem[call.dst + call.n] = Tag(call.dst + call.n)

Progress ==
    IF call.f = "strcpy" THEN Unended
    ELSE IF ~KnownWrong(call) THEN SoFarRight
    ELSE IF call.f = "memmove" THEN SoFarRepeated
    ELSE SoFarOnes

\* A piece is aligned at both ends.
PieceOK ==
    /\ piece.size \in {0, 1, 2, 4, 8} /\ piece.to \in Nat /\ piece.from \in Nat
    /\ piece.size > 0 => /\ Aligned(piece.to, piece.size)
                         /\ call.f \in Copies => Aligned(piece.from, piece.size)

MemInv ==
    /\ CallOK /\ PieceOK
    /\ i \in 0 .. call.n
    /\ mem \in [0 .. MemSize - 1 -> Int]
    /\ ~done /\ call.way = "real" => mem = InitialMem(call)
    /\ ~done /\ call.way # "real" => Progress
    /\ done => (mem = Libc(call, InitialMem(call)) <=> ~KnownWrong(call))

\* MemInit makes such a call.
LEMMA MemInitCall == ASSUME MemInit PROVE CallOK
<1>1. call \in [f: Copies \cup Fills, dst: 0 .. MemSize - MaxLen - 1,
                src: 0 .. MemSize - MaxLen - 1, n: 0 .. MaxLen, c: FillBytes, way: Ways]
  BY DEF MemInit
<1>2. /\ call.f \in Copies \cup Fills /\ call.dst \in 0 .. MemSize - MaxLen - 1
      /\ call.src \in 0 .. MemSize - MaxLen - 1 /\ call.n \in 0 .. MaxLen
      /\ call.c \in FillBytes /\ call.way \in Ways
  BY <1>1
<1>3. MemSize \in Nat /\ MaxLen \in Nat /\ FillBytes \subseteq 0 .. 255
  BY MemAssumption
<1>4. /\ call.dst \in Nat /\ call.src \in Nat /\ call.n \in Nat /\ call.c \in 0 .. 255
      /\ call.dst + call.n < MemSize /\ call.src + call.n < MemSize
  <2>1. ASSUME NEW x \in 0 .. MemSize - MaxLen - 1, NEW y \in 0 .. MaxLen
        PROVE  x \in Nat /\ y \in Nat /\ x + y < MemSize
    BY <1>3
  <2>2. call.c \in 0 .. 255
    BY <1>2, <1>3
  <2>3. QED
    BY <1>2, <2>1, <2>2
<1>5. QED
  BY <1>2, <1>4 DEF MemInit, CallOK

\* What memory holds at first.
LEMMA InitialBytes ==
    ASSUME CallOK
    PROVE  /\ InitialMem(call) \in [0 .. MemSize - 1 -> Int]
           /\ \A a \in 0 .. MemSize - 1 :
                InitialMem(call)[a] = IF call.f = "strcpy" /\ a = call.src + call.n THEN 0 ELSE Tag(a)
           /\ \A a \in 0 .. MemSize - 1 : Tag(a) \in Int
  BY MemAssumption DEF InitialMem, Tag

\* The functions that copy and the ones that fill.
LEMMA FunctionFacts ==
    ASSUME CallOK
    PROVE  /\ call.f \in Copies <=> call.f \in {"memcpy", "memmove", "strcpy"}
           /\ call.f \notin Copies <=> call.f \in {"memset", "bzero"}
  BY DEF CallOK, Copies, Fills

\* Before the first round.
LEMMA MemInitInv == ASSUME MemInit PROVE MemInv
<1>1. CallOK
  BY MemInitCall
<1>2. mem = InitialMem(call) /\ i = 0 /\ done = FALSE /\ piece = [size |-> 0, from |-> 0, to |-> 0]
  BY DEF MemInit
<1>3. /\ call.n \in Nat /\ call.dst \in Nat /\ call.src \in Nat /\ MemSize \in Nat
      /\ call.dst + call.n < MemSize
  BY <1>1, MemAssumption DEF CallOK
<1>4. PieceOK
  BY <1>2 DEF PieceOK
<1>5. i \in 0 .. call.n /\ mem \in [0 .. MemSize - 1 -> Int]
  BY <1>1, <1>2, <1>3, InitialBytes
<1>6. CASE call.f = "strcpy"
  <2>1. call.dst # call.src
    BY <1>1, <1>3, <1>6 DEF CallOK, Overlap
  <2>2. call.dst + call.n \in 0 .. MemSize - 1 /\ call.dst + call.n # call.src + call.n
    BY <1>3, <2>1
  <2>3. Unended
    BY <1>1, <1>2, <2>2, InitialBytes DEF Unended
  <2>4. Progress
    BY <1>6, <2>3 DEF Progress
  <2>5. QED
    BY <1>1, <1>2, <1>4, <1>5, <2>4 DEF MemInv
<1>7. CASE call.f # "strcpy"
  <2>1. \A a \in 0 .. MemSize - 1 : mem[a] = Tag(a)
    BY <1>1, <1>2, <1>7, InitialBytes
  <2>2. \A a : ~Written(a)
    BY <1>2, <1>3 DEF Written
  <2>3. SoFarRight
    BY <2>1, <2>2 DEF SoFarRight
  <2>4. call.f = "memmove" /\ KnownWrong(call) => SoFarRepeated
    <3>1. call.f = "memmove" /\ KnownWrong(call) => call.src < call.dst
      BY DEF KnownWrong
    <3>2. QED
      BY <1>2, <1>3, <2>1, <3>1 DEF SoFarRepeated
  <2>5. SoFarOnes
    BY <1>2, <1>3 DEF SoFarOnes
  <2>6. Progress
    BY <1>7, <2>3, <2>4, <2>5 DEF Progress
  <2>7. QED
    BY <1>1, <1>2, <1>4, <1>5, <2>6 DEF MemInv
<1>8. QED
  BY <1>6, <1>7

\* The numbers of a call in progress.
LEMMA CallFacts ==
    ASSUME MemInv
    PROVE  /\ CallOK /\ MemSize \in Nat /\ i \in Nat /\ i <= call.n
           /\ call.dst \in Nat /\ call.src \in Nat /\ call.n \in Nat /\ call.c \in Nat
           /\ call.dst + call.n < MemSize /\ call.src + call.n < MemSize
           /\ DOMAIN mem = 0 .. MemSize - 1
<1>1. CallOK /\ i \in 0 .. call.n /\ mem \in [0 .. MemSize - 1 -> Int] /\ MemSize \in Nat
  BY MemAssumption DEF MemInv
<1>2. /\ call.dst \in Nat /\ call.src \in Nat /\ call.n \in Nat /\ call.c \in 0 .. 255
      /\ call.dst + call.n < MemSize /\ call.src + call.n < MemSize
  BY <1>1 DEF CallOK
<1>3. i \in Nat /\ i <= call.n
  BY <1>1, <1>2
<1>4. call.c \in Nat
  BY <1>2
<1>5. DOMAIN mem = 0 .. MemSize - 1
  BY <1>1
<1>6. QED
  BY <1>1, <1>2, <1>3, <1>4, <1>5

\* A piece is aligned at both ends and ends within the range.
LEMMA PieceFits ==
    ASSUME MemInv, i < call.n
    PROVE  /\ PieceSize(call, i) \in {1, 2, 4, 8}
           /\ i + PieceSize(call, i) <= call.n
           /\ (call.dst + i) % PieceSize(call, i) = 0
           /\ call.f \in Copies => (call.src + i) % PieceSize(call, i) = 0
           /\ PieceSize(call, i) = 8 <=> Fits(call, i, 8)
<1>1. /\ i \in Nat /\ call.n \in Nat /\ call.dst \in Nat /\ call.src \in Nat
  BY CallFacts
<1>2. ASSUME NEW s \in {2, 4, 8}, Fits(call, i, s)
      PROVE  /\ i + s <= call.n /\ (call.dst + i) % s = 0
             /\ call.f \in Copies => (call.src + i) % s = 0
  BY <1>2 DEF Fits, Aligned
<1>3. i + 1 <= call.n /\ (call.dst + i) % 1 = 0 /\ (call.src + i) % 1 = 0
  BY <1>1
<1>4. CASE Fits(call, i, 8)
  BY <1>2, <1>4 DEF PieceSize
<1>5. CASE ~Fits(call, i, 8) /\ Fits(call, i, 4)
  BY <1>2, <1>5 DEF PieceSize
<1>6. CASE ~Fits(call, i, 8) /\ ~Fits(call, i, 4) /\ Fits(call, i, 2)
  BY <1>2, <1>6 DEF PieceSize
<1>7. CASE ~Fits(call, i, 8) /\ ~Fits(call, i, 4) /\ ~Fits(call, i, 2)
  BY <1>3, <1>7 DEF PieceSize
<1>8. QED
  BY <1>4, <1>5, <1>6, <1>7

\* One round writes its piece and nothing else.
LEMMA PieceWrites ==
    ASSUME MemInv, Piece
    PROVE  /\ \A a \in 0 .. MemSize - 1 :
                mem'[a] = IF a \in call.dst + i .. call.dst + i + PieceSize(call, i) - 1
                          THEN IF call.f \in Copies THEN mem[call.src + (a - call.dst)]
                               ELSE FillByte(call, PieceSize(call, i), a - call.dst - i)
                          ELSE mem[a]
           /\ mem' \in [0 .. MemSize - 1 -> Int]
           /\ i' = i + PieceSize(call, i)
           /\ UNCHANGED <<call, done>> /\ i < call.n /\ ~done /\ call.way = "cxl"
<1> DEFINE s == PieceSize(call, i)
<1>1. /\ mem' = [a \in 0 .. MemSize - 1 |->
                   IF a \in call.dst + i .. call.dst + i + s - 1
                   THEN IF call.f \in Copies THEN mem[call.src + (a - call.dst)]
                        ELSE FillByte(call, s, a - call.dst - i)
                   ELSE mem[a]]
      /\ i' = i + s /\ UNCHANGED <<call, done>> /\ i < call.n /\ ~done /\ call.way = "cxl"
  BY CallFacts DEF Piece
<1>2. /\ s \in Nat /\ i + s <= call.n
  BY <1>1, PieceFits
<1> HIDE DEF s
<1>3. ASSUME NEW a \in 0 .. MemSize - 1 PROVE mem'[a] \in Int
  <2>1. mem \in [0 .. MemSize - 1 -> Int]
    BY DEF MemInv
  <2>2. CASE a \in call.dst + i .. call.dst + i + s - 1
    <3>1. call.src + (a - call.dst) \in 0 .. MemSize - 1
      <4>1. /\ call.dst \in Nat /\ call.src \in Nat /\ call.n \in Nat /\ i \in Nat
            /\ MemSize \in Nat /\ call.src + call.n < MemSize
        BY CallFacts
      <4>2. QED
        BY <1>2, <2>2, <4>1
    <3>2. FillByte(call, s, a - call.dst - i) \in Int
      BY CallFacts DEF FillByte
    <3>3. QED
      BY <1>1, <2>1, <2>2, <3>1, <3>2
  <2>3. CASE ~(a \in call.dst + i .. call.dst + i + s - 1)
    BY <1>1, <2>1, <2>3
  <2>4. QED
    BY <2>2, <2>3
<1>4. mem' \in [0 .. MemSize - 1 -> Int]
  BY <1>1, <1>3
<1>5. QED
  BY <1>1, <1>4 DEF s

\* A piece of a call that comes out right.
LEMMA PieceRight ==
    ASSUME MemInv, Piece, ~KnownWrong(call), call.f # "strcpy", SoFarRight PROVE SoFarRight'
<1> DEFINE s == PieceSize(call, i)
<1>1. /\ i' = i + s /\ UNCHANGED <<call, done>> /\ i < call.n /\ call.way = "cxl"
      /\ \A a \in 0 .. MemSize - 1 :
           mem'[a] = IF a \in call.dst + i .. call.dst + i + s - 1
                     THEN IF call.f \in Copies THEN mem[call.src + (a - call.dst)]
                          ELSE FillByte(call, s, a - call.dst - i)
                     ELSE mem[a]
  BY PieceWrites
<1>2. s \in {1, 2, 4, 8} /\ i + s <= call.n /\ (s = 8 <=> Fits(call, i, 8))
  BY <1>1, PieceFits
<1> HIDE DEF s
<1>3. /\ i \in Nat /\ s \in Nat /\ call.dst \in Nat /\ call.src \in Nat /\ call.n \in Nat
      /\ MemSize \in Nat /\ call.src + call.n < MemSize /\ call.c \in Nat /\ CallOK
  BY <1>2, CallFacts
<1>4. ~Down /\ ~Down'
  BY <1>1 DEF Down
<1> SUFFICES ASSUME NEW a \in 0 .. MemSize - 1
             PROVE  mem'[a] = IF a \in call.dst .. call.dst + (i + s) - 1 THEN Wanted(a) ELSE Tag(a)
  BY <1>1, <1>4 DEF SoFarRight, Written, Wanted
<1>5. mem[a] = IF a \in call.dst .. call.dst + i - 1 THEN Wanted(a) ELSE Tag(a)
  BY <1>4 DEF SoFarRight, Written
<1>6. CASE a \in call.dst + i .. call.dst + i + s - 1
  <2>1. a \in call.dst .. call.dst + (i + s) - 1
    BY <1>3, <1>6
  <2>2. CASE call.f \in Copies
    <3>1. \/ call.dst <= call.src
          \/ call.src + call.n <= call.dst
      BY <1>1, <1>3, <2>2, FunctionFacts DEF KnownWrong, CallOK, Overlap
    <3>2. /\ call.src + (a - call.dst) \in 0 .. MemSize - 1
          /\ call.src + (a - call.dst) \notin call.dst .. call.dst + i - 1
      BY <1>2, <1>3, <1>6, <3>1
    <3>3. mem[call.src + (a - call.dst)] = Tag(call.src + (a - call.dst))
      BY <1>4, <3>2 DEF SoFarRight, Written
    <3>4. QED
      BY <1>1, <1>6, <2>1, <2>2, <3>3 DEF Wanted
  <2>3. CASE call.f \notin Copies
    <3>1. call.f = "bzero" => call.c = 0
      BY <1>3 DEF CallOK
    <3>2. call.f # "bzero" /\ s = 8 /\ call.c >= 128 => call.c = 255
      <4> SUFFICES ASSUME call.f # "bzero", s = 8, call.c >= 128 PROVE call.c = 255
        OBVIOUS
      <4>1. Fits(call, i, 8) /\ i \in 0 .. call.n - 8 /\ call.f = "memset"
        BY <1>2, <1>3, <2>3, FunctionFacts
      <4>2. call.c \notin 128 .. 254
        BY <1>1, <4>1 DEF KnownWrong
      <4>3. QED
        BY <1>3, <4>2 DEF CallOK
    <3>3. FillByte(call, s, a - call.dst - i) = call.c
      BY <3>1, <3>2 DEF FillByte
    <3>4. QED
      BY <1>1, <1>6, <2>1, <2>3, <3>3 DEF Wanted
  <2>4. QED
    BY <2>2, <2>3
<1>7. CASE a \notin call.dst + i .. call.dst + i + s - 1
  <2>1. a \in call.dst .. call.dst + (i + s) - 1 <=> a \in call.dst .. call.dst + i - 1
    BY <1>3, <1>7
  <2>2. QED
    BY <1>1, <1>5, <1>7, <2>1
<1>8. QED
  BY <1>6, <1>7

\* A piece of a memmove upwards over an overlap.
LEMMA PieceRepeats ==
    ASSUME MemInv, Piece, KnownWrong(call), call.f = "memmove", SoFarRepeated
    PROVE  SoFarRepeated'
<1> DEFINE s == PieceSize(call, i)
           D == call.dst
           S == call.src
<1>1. /\ i' = i + s /\ UNCHANGED <<call, done>> /\ i < call.n
      /\ \A a \in 0 .. MemSize - 1 :
           mem'[a] = IF a \in D + i .. D + i + s - 1 THEN mem[S + (a - D)] ELSE mem[a]
  BY PieceWrites DEF Copies
<1>2. s \in {1, 2, 4, 8} /\ i + s <= call.n /\ (D + i) % s = 0 /\ (S + i) % s = 0
  BY <1>1, PieceFits DEF Copies
<1>3. /\ i \in Nat /\ s \in Nat /\ s > 0 /\ D \in Nat /\ S \in Nat /\ call.n \in Nat
      /\ MemSize \in Nat /\ S + call.n < MemSize /\ D + call.n < MemSize
  <2>1. s \in Nat /\ s > 0
    BY <1>2
  <2>2. QED
    BY <2>1, CallFacts
<1>4. S < D /\ D < S + call.n
  BY DEF KnownWrong
<1>5. /\ \A a \in 0 .. MemSize - 1 : a \notin D .. D + i - 1 => mem[a] = Tag(a)
      /\ i > 0 => mem[D] = Tag(S)
      /\ i > D - S => mem[D + (D - S)] = Tag(S)
  BY DEF SoFarRepeated
<1> SUFFICES /\ \A a \in 0 .. MemSize - 1 : a \notin D .. D + (i + s) - 1 => mem'[a] = Tag(a)
             /\ mem'[D] = Tag(S)
             /\ i + s > D - S => mem'[D + (D - S)] = Tag(S)
  BY <1>1 DEF SoFarRepeated
<1> HIDE DEF s, D, S
<1>6. s <= D - S
  <2>1. ASSUME NEW x \in Nat, NEW y \in Nat, NEW m \in {1, 2, 4, 8}, x % m = 0, y % m = 0, y < x
        PROVE  m <= x - y
    BY <2>1, SMTT(60)
  <2>2. D + i \in Nat /\ S + i \in Nat /\ S + i < D + i
    BY <1>3, <1>4
  <2>3. s <= (D + i) - (S + i)
    BY <1>2, <2>1, <2>2
  <2>4. QED
    BY <1>3, <2>3
<1>7. ASSUME NEW a \in 0 .. MemSize - 1, a \notin D .. D + (i + s) - 1 PROVE mem'[a] = Tag(a)
  <2>1. a \notin D + i .. D + i + s - 1 /\ a \notin D .. D + i - 1
    BY <1>3, <1>7
  <2>2. QED
    BY <1>1, <1>5, <2>1
<1>8. mem'[D] = Tag(S)
  <2>1. D \in 0 .. MemSize - 1 /\ S \in 0 .. MemSize - 1
    BY <1>3
  <2>2. CASE i = 0
    <3>1. D \in D + i .. D + i + s - 1 /\ S \notin D .. D + i - 1 /\ S + (D - D) = S
      BY <1>3, <1>4, <2>2
    <3>2. QED
      BY <1>1, <1>5, <2>1, <3>1
  <2>3. CASE i > 0
    <3>1. D \notin D + i .. D + i + s - 1
      BY <1>3, <2>3
    <3>2. QED
      BY <1>1, <1>5, <2>1, <2>3, <3>1
  <2>4. QED
    BY <1>3, <2>2, <2>3
<1>9. ASSUME i + s > D - S PROVE mem'[D + (D - S)] = Tag(S)
  <2>1. D + (D - S) \in 0 .. MemSize - 1 /\ S + (D + (D - S) - D) = D
    BY <1>3, <1>4
  <2>2. CASE i > D - S
    <3>1. D + (D - S) \notin D + i .. D + i + s - 1
      BY <1>3, <1>4, <2>2
    <3>2. QED
      BY <1>1, <1>5, <2>1, <2>2, <3>1
  <2>3. CASE ~(i > D - S)
    <3>1. D + (D - S) \in D + i .. D + i + s - 1 /\ i > 0
      BY <1>3, <1>4, <1>6, <1>9, <2>3
    <3>2. mem'[D + (D - S)] = mem[S + ((D + (D - S)) - D)]
      BY <1>1, <2>1, <3>1
    <3>3. S + ((D + (D - S)) - D) = D
      BY <1>3
    <3>4. QED
      BY <1>5, <3>1, <3>2, <3>3
  <2>4. QED
    BY <2>2, <2>3
<1>10. QED
  BY <1>7, <1>8, <1>9

\* A piece of a memset that does not come out right.
LEMMA PieceOnes ==
    ASSUME MemInv, Piece, KnownWrong(call), call.f \notin {"strcpy", "memmove"}, SoFarOnes
    PROVE  SoFarOnes'
<1> DEFINE s == PieceSize(call, i)
           D == call.dst
<1>1. call.f = "memset" /\ call.c \in 128 .. 254 /\ call.f \notin Copies
  BY DEF KnownWrong, Copies
<1>2. /\ i' = i + s /\ UNCHANGED <<call, done>> /\ i < call.n
      /\ \A a \in 0 .. MemSize - 1 :
           mem'[a] = IF a \in D + i .. D + i + s - 1 THEN FillByte(call, s, a - D - i) ELSE mem[a]
  BY <1>1, PieceWrites
<1>3. s \in {1, 2, 4, 8} /\ i + s <= call.n /\ (D + i) % s = 0 /\ (s = 8 <=> Fits(call, i, 8))
  BY <1>2, PieceFits
<1>4. /\ i \in Nat /\ s \in Nat /\ s > 0 /\ D \in Nat /\ call.n \in Nat
      /\ MemSize \in Nat /\ D + call.n < MemSize
  BY <1>3, CallFacts
<1> SUFFICES ASSUME NEW j \in 0 .. call.n - 8, Fits(call, j, 8), j < i + s
             PROVE  j + 8 <= i + s /\ mem'[D + (j + 4)] = 255
  BY <1>2 DEF SoFarOnes, Fits
<1>5. (D + j) % 8 = 0 /\ j + 8 <= call.n /\ j \in Nat
  BY <1>4 DEF Fits, Aligned
<1> HIDE DEF s
<1>6. D + (j + 4) \in 0 .. MemSize - 1
  BY <1>4, <1>5
<1>7. CASE j < i
  <2>1. j + 8 <= i /\ mem[D + (j + 4)] = 255
    BY <1>7 DEF SoFarOnes
  <2>2. D + (j + 4) \notin D + i .. D + i + s - 1
    BY <1>4, <1>5, <2>1
  <2>3. mem'[D + (j + 4)] = mem[D + (j + 4)]
    BY <1>2, <1>6, <2>2
  <2>4. j + 8 <= i + s
    BY <1>4, <1>5, <2>1
  <2>5. QED
    BY <2>1, <2>3, <2>4
<1>8. CASE ~(j < i)
  <2>1. ASSUME NEW x \in Nat, NEW y \in Nat, NEW m \in {1, 2, 4, 8}, x % m = 0, y % 8 = 0,
               x <= y, y < x + m
        PROVE  x = y
    BY <2>1, SMTT(60)
  <2>2. D + i \in Nat /\ D + j \in Nat /\ D + i <= D + j /\ D + j < (D + i) + s
    BY <1>4, <1>5, <1>8
  <2>3. D + i = D + j
    BY <1>3, <1>5, <2>1, <2>2
  <2>4. j = i
    BY <1>4, <1>5, <2>3
  <2>5. s = 8
    BY <1>3, <2>4
  <2>6. D + (j + 4) \in D + i .. D + i + s - 1 /\ (D + (j + 4)) - D - i = 4
    BY <1>4, <2>4, <2>5
  <2>7. mem'[D + (j + 4)] = FillByte(call, 8, 4)
    BY <1>2, <1>6, <2>5, <2>6
  <2>8. FillByte(call, 8, 4) = 255
    BY <1>1 DEF FillByte
  <2>9. QED
    BY <1>4, <2>4, <2>5, <2>7, <2>8
<1>9. QED
  BY <1>7, <1>8

\* One piece.
LEMMA PieceStep == ASSUME MemInv, Piece PROVE MemInv'
<1>1. /\ mem' \in [0 .. MemSize - 1 -> Int] /\ i' = i + PieceSize(call, i)
      /\ UNCHANGED <<call, done>> /\ i < call.n /\ ~done /\ call.way = "cxl"
  BY PieceWrites
<1>2. /\ PieceSize(call, i) \in {1, 2, 4, 8} /\ i + PieceSize(call, i) <= call.n
      /\ (call.dst + i) % PieceSize(call, i) = 0
      /\ call.f \in Copies => (call.src + i) % PieceSize(call, i) = 0
  BY <1>1, PieceFits
<1>3. /\ call.dst \in Nat /\ call.src \in Nat /\ call.n \in Nat /\ i \in Nat /\ CallOK
      /\ MemSize \in Nat /\ call.dst + call.n < MemSize
  BY CallFacts
<1>4. PieceOK'
  <2>1. piece' = [size |-> PieceSize(call, i), from |-> call.src + i, to |-> call.dst + i]
    BY DEF Piece
  <2>2. /\ piece'.size = PieceSize(call, i) /\ piece'.from = call.src + i
        /\ piece'.to = call.dst + i
    BY <2>1
  <2>3. call.src + i \in Nat /\ call.dst + i \in Nat
    BY <1>3
  <2>4. QED
    BY <1>1, <1>2, <2>2, <2>3 DEF PieceOK, Aligned
<1>5. i' \in 0 .. call'.n
  <2>1. PieceSize(call, i) \in Nat
    BY <1>2
  <2>2. i + PieceSize(call, i) \in 0 .. call.n
    BY <1>2, <1>3, <2>1
  <2>3. QED
    BY <1>1, <2>2
<1>6. KnownWrong(call)' = KnownWrong(call) /\ CallOK'
  BY <1>1, <1>3 DEF KnownWrong, Fits, Aligned, CallOK, Overlap
<1>7. Progress
  BY <1>1 DEF MemInv
<1>8. Progress'
  <2>1. CASE call.f = "strcpy"
    <3>1. mem[call.dst + call.n] = Tag(call.dst + call.n)
      BY <1>7, <2>1 DEF Progress, Unended
    <3>2. /\ call.dst + call.n \in 0 .. MemSize - 1
          /\ call.dst + call.n \notin call.dst + i .. call.dst + i + PieceSize(call, i) - 1
      BY <1>2, <1>3
    <3>3. mem'[call.dst + call.n] = mem[call.dst + call.n]
      BY <3>2, PieceWrites
    <3>4. QED
      BY <1>1, <2>1, <3>1, <3>3 DEF Progress, Unended
  <2>2. CASE call.f # "strcpy" /\ ~KnownWrong(call)
    BY <1>1, <1>6, <1>7, <2>2, PieceRight DEF Progress
  <2>3. CASE call.f = "memmove" /\ KnownWrong(call)
    BY <1>1, <1>6, <1>7, <2>3, PieceRepeats DEF Progress
  <2>4. CASE call.f \notin {"strcpy", "memmove"} /\ KnownWrong(call)
    BY <1>1, <1>6, <1>7, <2>4, PieceOnes DEF Progress
  <2>5. QED
    BY <2>1, <2>2, <2>3, <2>4
<1>9. QED
  BY <1>1, <1>4, <1>5, <1>6, <1>8 DEF MemInv

\* One byte while libc's function is not resolved.
LEMMA EarlyStep == ASSUME MemInv, EarlyByte PROVE MemInv'
<1> DEFINE j == Position(call, i)
           D == call.dst
           S == call.src
           x == IF call.f \in Copies THEN mem[S + j] ELSE call.c
<1>1. /\ mem' = [mem EXCEPT ![D + j] = x] /\ i' = i + 1
      /\ UNCHANGED <<call, done, piece>> /\ i < call.n /\ ~done /\ call.way = "early"
  BY DEF EarlyByte
<1>2. /\ D \in Nat /\ S \in Nat /\ call.n \in Nat /\ i \in Nat /\ CallOK /\ call.c \in Nat
      /\ MemSize \in Nat /\ D + call.n < MemSize /\ S + call.n < MemSize
  BY CallFacts
<1>3. /\ Down => j = call.n - 1 - i
      /\ ~Down => j = i
  BY <1>1 DEF Position, Down
<1>4. Down' = Down /\ KnownWrong(call)' = KnownWrong(call) /\ CallOK' /\ PieceOK'
  BY <1>1, <1>2 DEF KnownWrong, Fits, Aligned, CallOK, Overlap, Down, PieceOK, MemInv
<1>5. mem \in [0 .. MemSize - 1 -> Int]
  BY DEF MemInv
<1> HIDE DEF j
<1>6. j \in Nat /\ j < call.n /\ D + j \in 0 .. MemSize - 1 /\ S + j \in 0 .. MemSize - 1
  BY <1>1, <1>2, <1>3
<1>7. x \in Int
  <2>1. mem[S + j] \in Int
    BY <1>5, <1>6
  <2>2. call.c \in Int
    BY <1>2
  <2>3. QED
    BY <2>1, <2>2
<1> HIDE DEF x
<1>8. /\ mem' \in [0 .. MemSize - 1 -> Int]
      /\ \A a \in 0 .. MemSize - 1 : mem'[a] = IF a = D + j THEN x ELSE mem[a]
  BY <1>1, <1>5, <1>6, <1>7
<1>9. Progress
  BY <1>1 DEF MemInv
<1>10. KnownWrong(call) <=> call.f = "strcpy"
  BY <1>1 DEF KnownWrong
<1>11. i' \in 0 .. call'.n
  <2>1. i + 1 \in 0 .. call.n
    BY <1>1, <1>2
  <2>2. QED
    BY <1>1, <2>1
<1>12. CASE call.f = "strcpy"
  <2>1. mem[D + call.n] = Tag(D + call.n)
    BY <1>9, <1>12 DEF Progress, Unended
  <2>2. D + call.n \in 0 .. MemSize - 1 /\ D + call.n # D + j
    BY <1>2, <1>6
  <2>3. Unended'
    BY <1>1, <1>8, <2>1, <2>2 DEF Unended
  <2>4. Progress'
    BY <1>1, <1>12, <2>3 DEF Progress
  <2>5. QED
    BY <1>1, <1>4, <1>8, <1>11, <2>4 DEF MemInv
<1>13. CASE call.f # "strcpy"
  <2>1. SoFarRight /\ ~KnownWrong(call)
    BY <1>9, <1>10, <1>13 DEF Progress
  <2>2. \A a \in 0 .. MemSize - 1 : Written(a)' <=> Written(a) \/ a = D + j
    <3>1. CASE Down
      BY <1>1, <1>2, <1>3, <1>4, <3>1 DEF Written
    <3>2. CASE ~Down
      BY <1>1, <1>2, <1>3, <1>4, <3>2 DEF Written
    <3>3. QED
      BY <3>1, <3>2
  <2>3. x = Wanted(D + j)
    <3>1. CASE call.f \in Copies
      <4>1. ~Written(S + j)
        <5>1. CASE Down
          BY <1>1, <1>2, <1>3, <5>1 DEF Written, Down
        <5>2. CASE ~Down
          <6>1. D <= S \/ S + call.n <= D
            BY <1>1, <1>2, <1>13, <3>1, <5>2, FunctionFacts DEF Down, CallOK, Overlap
          <6>2. QED
            BY <1>1, <1>2, <1>3, <5>2, <6>1 DEF Written
        <5>3. QED
          BY <5>1, <5>2
      <4>2. mem[S + j] = Tag(S + j)
        BY <1>6, <2>1, <4>1 DEF SoFarRight
      <4>3. S + ((D + j) - D) = S + j
        BY <1>2, <1>6
      <4>4. QED
        BY <3>1, <4>2, <4>3 DEF Wanted, x
    <3>2. CASE call.f \notin Copies
      BY <3>2 DEF Wanted, x
    <3>3. QED
      BY <3>1, <3>2
  <2>4. SoFarRight'
    <3> SUFFICES ASSUME NEW a \in 0 .. MemSize - 1
                 PROVE  mem'[a] = IF Written(a)' THEN Wanted(a) ELSE Tag(a)
      BY <1>1 DEF SoFarRight, Wanted
    <3>1. mem[a] = IF Written(a) THEN Wanted(a) ELSE Tag(a)
      BY <2>1 DEF SoFarRight
    <3>2. CASE a = D + j
      BY <1>8, <2>2, <2>3, <3>2
    <3>3. CASE a # D + j
      BY <1>8, <2>2, <3>1, <3>3
    <3>4. QED
      BY <3>2, <3>3
  <2>5. Progress'
    BY <1>1, <1>4, <1>13, <2>1, <2>4 DEF Progress
  <2>6. QED
    BY <1>1, <1>4, <1>8, <1>11, <2>5 DEF MemInv
<1>14. QED
  BY <1>12, <1>13

\* libc's own function.
LEMMA RealStep == ASSUME MemInv, RealCall PROVE MemInv'
<1>1. /\ mem' = Libc(call, mem) /\ done' = TRUE /\ UNCHANGED <<call, i, piece>> /\ ~done
      /\ call.way = "real" /\ mem = InitialMem(call)
  BY DEF RealCall, MemInv
<1>2. CallOK' /\ PieceOK' /\ ~KnownWrong(call)'
  BY <1>1 DEF MemInv, CallOK, Overlap, PieceOK, KnownWrong
<1>3. Libc(call, InitialMem(call))' = Libc(call, InitialMem(call))
  BY <1>1 DEF Libc, InitialMem
<1>4. mem' \in [0 .. MemSize - 1 -> Int]
  <2>1. /\ call.dst \in Nat /\ call.src \in Nat /\ call.n \in Nat /\ call.c \in Nat
        /\ MemSize \in Nat /\ call.src + call.n < MemSize /\ DOMAIN mem = 0 .. MemSize - 1
    BY CallFacts
  <2>2. mem \in [0 .. MemSize - 1 -> Int]
    BY DEF MemInv
  <2>3. \A a \in call.dst .. call.dst + call.n - 1 : mem[call.src + (a - call.dst)] \in Int
    <3> SUFFICES ASSUME NEW a \in call.dst .. call.dst + call.n - 1
                 PROVE  mem[call.src + (a - call.dst)] \in Int
      OBVIOUS
    <3>1. ASSUME NEW x \in Nat, NEW y \in Nat, NEW n \in Nat, NEW m \in Nat,
                 y + n < m, NEW z \in x .. x + n - 1
          PROVE  y + (z - x) \in 0 .. m - 1
      BY <3>1
    <3>2. call.src + (a - call.dst) \in 0 .. MemSize - 1
      BY <2>1, <3>1
    <3>3. QED
      BY <2>2, <3>2
  <2>4. QED
    BY <1>1, <2>1, <2>2, <2>3 DEF Libc
<1>5. i' \in 0 .. call'.n
  BY <1>1 DEF MemInv
<1>6. (mem = Libc(call, InitialMem(call)))'
  BY <1>1, <1>3
<1>7. QED
  BY <1>1, <1>2, <1>4, <1>5, <1>6 DEF MemInv

\* Where the range ends, a call that is known to come out wrong has done so and any
\* other has not.
LEMMA ReturnStep == ASSUME MemInv, MemReturn PROVE MemInv'
<1> DEFINE L == Libc(call, InitialMem(call))
           D == call.dst
           S == call.src
<1>1. done' = TRUE /\ UNCHANGED <<call, mem, i, piece>> /\ ~done /\ call.way # "real" /\ i >= call.n
  BY DEF MemReturn
<1>2. /\ D \in Nat /\ S \in Nat /\ call.n \in Nat /\ i \in Nat /\ CallOK /\ call.c \in Nat
      /\ MemSize \in Nat /\ D + call.n < MemSize /\ S + call.n < MemSize /\ i <= call.n
  BY CallFacts
<1>3. i = call.n
  BY <1>1, <1>2
<1>4. Progress /\ mem \in [0 .. MemSize - 1 -> Int]
  BY <1>1 DEF MemInv
<1>5. DOMAIN InitialMem(call) = 0 .. MemSize - 1
  BY DEF InitialMem
<1>6. /\ L = [a \in 0 .. MemSize - 1 |-> L[a]]
      /\ \A a \in 0 .. MemSize - 1 :
           L[a] = IF a \in D .. D + call.n - 1
                  THEN IF call.f \in Copies THEN InitialMem(call)[S + (a - D)] ELSE call.c
                  ELSE IF call.f = "strcpy" /\ a = D + call.n THEN 0 ELSE InitialMem(call)[a]
  BY <1>5 DEF Libc
<1> HIDE DEF L
<1>7. mem = L <=> ~KnownWrong(call)
  <2>1. CASE call.f = "strcpy"
    <3>1. mem[D + call.n] = Tag(D + call.n) /\ KnownWrong(call)
      BY <1>1, <1>4, <2>1 DEF Progress, Unended, KnownWrong
    <3>2. D + call.n \in 0 .. MemSize - 1 /\ D + call.n \notin D .. D + call.n - 1
      BY <1>2
    <3>3. L[D + call.n] = 0
      BY <1>6, <2>1, <3>2
    <3>4. Tag(D + call.n) # 0
      BY <1>2 DEF Tag
    <3>5. QED
      BY <3>1, <3>3, <3>4
  <2>2. CASE call.f # "strcpy"
    <3>1. \A a \in 0 .. MemSize - 1 : InitialMem(call)[a] = Tag(a)
      BY <1>2, <2>2, InitialBytes
    <3>2. CASE ~KnownWrong(call)
      <4>1. SoFarRight
        BY <1>4, <2>2, <3>2 DEF Progress
      <4>2. ASSUME NEW a \in 0 .. MemSize - 1 PROVE mem[a] = L[a]
        <5>1. Written(a) <=> a \in D .. D + call.n - 1
          BY <1>2, <1>3 DEF Written
        <5>2. a \in D .. D + call.n - 1 => S + (a - D) \in 0 .. MemSize - 1
          BY <1>2
        <5>3. QED
          BY <1>6, <2>2, <3>1, <4>1, <5>1, <5>2 DEF SoFarRight, Wanted
      <4>3. mem = L
        BY <1>4, <1>6, <4>2
      <4>4. QED
        BY <3>2, <4>3
    <3>3. CASE KnownWrong(call) /\ call.f = "memmove"
      <4>1. S < D /\ D < S + call.n
        BY <3>3 DEF KnownWrong
      <4>2. i > D - S
        BY <1>2, <1>3, <4>1
      <4>3. mem[D + (D - S)] = Tag(S)
        BY <1>4, <3>3, <4>2 DEF Progress, SoFarRepeated
      <4>4. /\ D + (D - S) \in D .. D + call.n - 1 /\ D + (D - S) \in 0 .. MemSize - 1
            /\ S + ((D + (D - S)) - D) = D /\ D \in 0 .. MemSize - 1
        BY <1>2, <4>1
      <4>5. L[D + (D - S)] = Tag(D)
        BY <1>6, <3>1, <3>3, <4>4 DEF Copies
      <4>6. Tag(S) # Tag(D)
        BY <1>2, <4>1 DEF Tag
      <4>7. QED
        BY <3>3, <4>3, <4>5, <4>6
    <3>4. CASE KnownWrong(call) /\ call.f # "memmove"
      <4>1. /\ call.f = "memset" /\ call.c \in 128 .. 254 /\ call.f \notin Copies
            /\ \E j \in 0 .. call.n - 8 : Fits(call, j, 8)
        BY <2>2, <3>4 DEF KnownWrong, Copies
      <4>2. PICK j \in 0 .. call.n - 8 : Fits(call, j, 8)
        BY <4>1
      <4>3. j < i
        BY <1>2, <1>3, <4>2
      <4>4. mem[D + (j + 4)] = 255
        BY <1>4, <2>2, <3>4, <4>2, <4>3 DEF Progress, SoFarOnes
      <4>5. D + (j + 4) \in D .. D + call.n - 1 /\ D + (j + 4) \in 0 .. MemSize - 1
        BY <1>2, <4>2
      <4>6. L[D + (j + 4)] = call.c
        BY <1>6, <4>1, <4>5
      <4>7. call.c # 255
        BY <4>1
      <4>8. QED
        BY <3>4, <4>4, <4>6, <4>7
    <3>5. QED
      BY <3>2, <3>3, <3>4
  <2>3. QED
    BY <2>1, <2>2
<1>8. L' = L /\ KnownWrong(call)' = KnownWrong(call) /\ CallOK' /\ PieceOK'
  BY <1>1, <1>2 DEF L, Libc, InitialMem, KnownWrong, Fits, Aligned, CallOK, Overlap, PieceOK, MemInv
<1>9. i' \in 0 .. call'.n
  <2>1. i \in 0 .. call.n
    BY <1>2, <1>3
  <2>2. QED
    BY <1>1, <2>1
<1>10. mem' \in [0 .. MemSize - 1 -> Int] /\ (mem = L <=> ~KnownWrong(call))'
  BY <1>1, <1>4, <1>7, <1>8
<1>11. QED
  BY <1>1, <1>8, <1>9, <1>10 DEF MemInv, L

\* For every memory, length and alignment: the pieces of a memory function add up
\* to libc's function except in the cases KnownWrong names, in all of which they do
\* not, and no piece spans two words.
THEOREM PiecesDoAddUp == MemSpec => []PiecesAddUp
<1>1. ASSUME MemInv, [MemNext]_memVars PROVE MemInv'
  <2>1. CASE MemNext
    BY <1>1, <2>1, PieceStep, EarlyStep, RealStep, ReturnStep DEF MemNext
  <2>2. CASE UNCHANGED memVars
    <3>1. UNCHANGED <<call, mem, i, done, piece>>
      BY <2>2 DEF memVars
    <3>2. /\ KnownWrong(call)' = KnownWrong(call) /\ InitialMem(call)' = InitialMem(call)
          /\ Libc(call, InitialMem(call))' = Libc(call, InitialMem(call))
      BY <3>1 DEF KnownWrong, Fits, Aligned, Libc, InitialMem
    <3>3. Progress => Progress'
      BY <3>1, <3>2 DEF Progress, Unended, SoFarRight, SoFarRepeated, SoFarOnes, Written, Wanted,
                        Down, Fits, Aligned
    <3>4. CallOK' /\ PieceOK'
      BY <1>1, <3>1 DEF MemInv, CallOK, Overlap, PieceOK
    <3>5. QED
      BY <1>1, <3>1, <3>2, <3>3, <3>4 DEF MemInv
  <2>3. QED
    BY <1>1, <2>1, <2>2
<1>2. ASSUME MemInv PROVE PiecesAddUp
  <2>1. ASSUME NEW m \in {1, 2, 4, 8}, NEW y \in Nat, y % m = 0 PROVE (y % 8) + m <= 8
    BY <2>1, SMTT(60)
  <2>2. PieceOK /\ (done => (mem = Libc(call, InitialMem(call)) <=> ~KnownWrong(call)))
    BY <1>2 DEF MemInv
  <2>3. piece.size > 0 => /\ (piece.to % 8) + piece.size <= 8
                          /\ call.f \in Copies => (piece.from % 8) + piece.size <= 8
    <3> SUFFICES ASSUME piece.size > 0
                 PROVE  /\ (piece.to % 8) + piece.size <= 8
                        /\ call.f \in Copies => (piece.from % 8) + piece.size <= 8
      OBVIOUS
    <3>1. piece.size \in {1, 2, 4, 8} /\ piece.to \in Nat /\ piece.from \in Nat
      BY <2>2 DEF PieceOK
    <3>2. (piece.to % 8) + piece.size <= 8
      BY <2>1, <2>2, <3>1 DEF PieceOK, Aligned
    <3>3. call.f \in Copies => (piece.from % 8) + piece.size <= 8
      BY <2>1, <2>2, <3>1 DEF PieceOK, Aligned
    <3>4. QED
      BY <3>2, <3>3
  <2>4. QED
    BY <2>2, <2>3 DEF PiecesAddUp
<1>3. QED
  BY <1>1, <1>2, MemInitInv, PTL DEF MemSpec

=============================================================================
