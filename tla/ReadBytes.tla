----------------------------- MODULE ReadBytes ------------------------------
(***************************************************************************)
(* How a load gets its bytes (include/thread_memory.h).  The stores of one *)
(* word are looked at from the newest to the oldest; get_overlaps gives    *)
(* each open byte of the load to the first store that claims it, and       *)
(* get_read_value puts the value together.  A store that turns out to be   *)
(* lost in a crash is taken back: build_read_from restores the copy that   *)
(* get_overlaps_save_old made.  CXLMemory uses this with sets of bytes and *)
(* naturally aligned accesses; here accesses start at any byte.            *)
(***************************************************************************)
EXTENDS Integers, Sequences, FiniteSets

CONSTANTS
    WordBytes,    \* bytes of a word; stores are kept per word (8)
    MaxStores     \* bound: stores made before the load

ASSUME ReadAssumption == WordBytes \in Nat \ {0} /\ MaxStores \in Nat

(* An access of the API: 8, 16, 32 or 64 bits inside one word.             *)
Access == { a \in [at: 0 .. WordBytes - 1, size: {1, 2, 4, 8}] : a.at + a.size <= WordBytes }

(* ensureInitialValue puts the word's old content in front.                *)
InitialStore == [at |-> 0, size |-> WordBytes]

VARIABLES
    wrs,      \* the store list of the word, the oldest first
    rd,       \* the load, once it is made
    rf,       \* rf[b]: the index of the store byte b comes from, 0 is open
    slots,    \* numslotsleft
    itr,      \* the store to look at next
    lost,     \* stores that were decided not to have persisted
    value     \* the bytes returned, <<>> before that

readVars == <<wrs, rd, rf, slots, itr, lost, value>>

NoLoad == [at |-> 0, size |-> 0]

ReadInit ==
    /\ wrs = <<InitialStore>>
    /\ rd = NoLoad
    /\ rf = <<>> /\ slots = 0 /\ itr = 0
    /\ lost = {} /\ value = <<>>

AddStore(w) ==
    /\ rd = NoLoad
    /\ Len(wrs) <= MaxStores
    /\ wrs' = Append(wrs, w)
    /\ UNCHANGED <<rd, rf, slots, itr, lost, value>>

StartLoad(r) ==
    /\ rd = NoLoad
    /\ rd' = r
    /\ rf' = [b \in 0 .. r.size - 1 |-> 0]
    /\ slots' = r.size
    /\ itr' = Len(wrs)
    /\ UNCHANGED <<wrs, lost, value>>

get_overlaps_MutantNoOffset(w, r, from) ==
    IF w.at >= r.at + r.size \/ r.at >= w.at + w.size THEN {}
    ELSE LET offset == IF w.at > r.at THEN w.at - r.at ELSE 0
         IN  { b \in offset .. w.size - 1 : b < r.size /\ from[b] = 0 }

(* The bytes of the load that the store takes: the loop starts at offset   *)
(* and runs for as many bytes as the store has, also when the store starts *)
(* below the load.  It stops early when no byte is open.                   *)
get_overlaps(w, r, from) ==
    IF w.at >= r.at + r.size \/ r.at >= w.at + w.size THEN {}
    ELSE LET offset == IF w.at > r.at THEN w.at - r.at ELSE 0
         IN  { b \in offset .. offset + w.size - 1 : b < r.size /\ from[b] = 0 }

(* One round of the loop of build_read_from, for a store that persisted.   *)
LookKeep ==
    /\ itr > 0 /\ slots > 0
    /\ LET bytes == get_overlaps(wrs[itr], rd, rf)
       IN  /\ rf' = [b \in DOMAIN rf |-> IF b \in bytes THEN itr ELSE rf[b]]
           /\ slots' = slots - Cardinality(bytes)
    /\ itr' = itr - 1
    /\ UNCHANGED <<wrs, rd, lost, value>>

(* ... and for one that did not: rf and numslotsleft go back to the copies. *)
LookLost ==
    /\ itr > 1 /\ slots > 0
    /\ get_overlaps(wrs[itr], rd, rf) # {}
    /\ lost' = lost \cup {itr}
    /\ itr' = itr - 1
    /\ UNCHANGED <<wrs, rd, rf, slots, value>>

(* Byte k of the 64 bits a store carries; above its size they are 0.       *)
ByteOf(n, k) == IF k < wrs[n].size THEN <<n, k>> ELSE <<0, 0>>

(* get_read_value shifts each store's value so that the byte of the load's *)
(* address comes last.                                                     *)
get_read_value(r, from) ==
    [b \in DOMAIN from |-> ByteOf(from[b], b + r.at - wrs[from[b]].at)]

ReturnLoad ==
    /\ rd # NoLoad
    /\ slots = 0
    /\ value = <<>>
    /\ value' = get_read_value(rd, rf)
    /\ UNCHANGED <<wrs, rd, rf, slots, itr, lost>>

ReadNext ==
    \/ \E a \in Access : AddStore(a) \/ StartLoad(a)
    \/ LookKeep \/ LookLost \/ ReturnLoad

ReadSpec == ReadInit /\ [][ReadNext]_readVars

-----------------------------------------------------------------------------
Covers(n, a) == n \notin lost /\ a \in wrs[n].at .. wrs[n].at + wrs[n].size - 1

(* The newest surviving store of the byte at address a.                    *)
NewestOf(a) == CHOOSE n \in 1 .. Len(wrs) :
                   Covers(n, a) /\ \A k \in n + 1 .. Len(wrs) : ~Covers(k, a)

(* A store that starts below the load and ends inside it claims bytes that *)
(* lie behind its own end.                                                 *)
OverReaches(n, a) ==
    /\ n \notin lost
    /\ wrs[n].at < rd.at /\ rd.at < wrs[n].at + wrs[n].size
    /\ a \in wrs[n].at + wrs[n].size .. rd.at + wrs[n].size - 1

NaturallyAligned == \A a \in {rd} \cup { wrs[n] : n \in 1 .. Len(wrs) } : a.at % a.size = 0

(* A load returns, byte for byte, what the newest surviving store to that  *)
(* byte wrote, however stores of other sizes overlap it and whichever of   *)
(* them are lost; with natural alignment always, otherwise exactly for the *)
(* bytes that no newer store reaching into the load from below claims.     *)
(* (build_read_from, get_overlaps and get_read_value together.)            *)
LoadBytesRight ==
    value # <<>> =>
        \A b \in DOMAIN value :
            LET a     == rd.at + b
                n     == NewestOf(a)
                right == value[b] = ByteOf(n, a - wrs[n].at)
            IN  /\ right <=> \A k \in n + 1 .. Len(wrs) : ~OverReaches(k, a)
                /\ NaturallyAligned => right
=============================================================================
