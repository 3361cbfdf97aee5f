------------------------------- MODULE Listing -------------------------------
(***************************************************************************)
(* ls: which entries of a directory its blocks hold.                       *)
(*                                                                         *)
(* An entry that does not fit the block any more has been read already.    *)
(* seekdir(dir, telldir(dir) - 1) is to make it the next one again, which  *)
(* it does only where the file system numbers its entries one by one.      *)
(* Other clients' requests may change the directory between two blocks.    *)
(***************************************************************************)
EXTENDS Integers, FiniteSets, FiniteSetsExt

CONSTANTS
    Entry,       (* names that may be in the directory                      *)
    DotEntry,    (* "." and ".."                                            *)
    Length(_),   (* characters of an entry in a block                       *)
    Capacity,    (* MAX_PACKET_SIZE - HASH_SIZE                             *)
    MaxPosition  (* bound: positions of the directory stream, from 1        *)

ASSUME ListingAssumption ==
    /\ IsFiniteSet(Entry) /\ DotEntry \subseteq Entry
    /\ Capacity \in Nat /\ MaxPosition \in Nat
    /\ \A e \in Entry : Length(e) \in 1 .. Capacity

Position == 1 .. MaxPosition
EndOfDir == MaxPosition + 1

VARIABLES
    place,    (* position of each entry that is in the directory            *)
    at_root,  (* whether the connection's path is empty                     *)
    position, (* of the DIR*                                                *)
    listed,   (* how often each entry is in the blocks prepared so far      *)
    blocks,   (* number of those blocks                                     *)
    done,     (* whether the last one was empty, which ends the listing     *)
    dense,    (* whether entries are numbered one by one, without gaps, and *)
              (* have been all the time                                     *)
    stayed    (* history: entries that were in the directory all the time   *)

listingVars == <<place, at_root, position, listed, blocks, done, dense, stayed>>

OneByOne(f) == \A e \in DOMAIN f : f[e] <= Cardinality(DOMAIN f)

-----------------------------------------------------------------------------

Shown(e) == at_root => e \notin DotEntry

(* What readdir finds from here on, without what is skipped.               *)
Ahead == {e \in DOMAIN place : place[e] >= position /\ Shown(e)}

(* An entry does not fit after those before it.                            *)
Characters(entries) == MapThenSumSet(Length, entries)
TooLong == {e \in Ahead : Characters({d \in Ahead : place[d] <= place[e]}) > Capacity}
FirstOf(S) == CHOOSE e \in S : \A d \in S : place[e] <= place[d]
Block == IF TooLong = {} THEN Ahead ELSE {e \in Ahead : place[e] < place[FirstOf(TooLong)]}

(* telldir once e has been read: where the next entry is.                  *)
After(e) ==
    LET later == {p \in {place[d] : d \in DOMAIN place} : p > place[e]}
    IN  IF later # {} THEN Min(later) ELSE IF dense THEN place[e] + 1 ELSE EndOfDir

(* Mutant: the directory is rewound to the entry before. *)
SeekBack(e) == IF place[e] > 1 THEN place[e] - 1 ELSE 1

(* Mutant: no seekdir. *)
SeekOn(e) == After(e)

(* seekdir(dir, telldir(dir) - 1), e being the entry that does not fit.    *)
Seek(e) == After(e) - 1

(* Mutant: the listing ends with a block that is not full. *)
PrepareDataShort ==
    /\ ~done
    /\ listed' = [e \in Entry |-> listed[e] + IF e \in Block THEN 1 ELSE 0]
    /\ position' = IF TooLong = {} THEN EndOfDir ELSE Seek(FirstOf(TooLong))
    /\ blocks' = blocks + 1
    /\ done' = (Characters(Block) < Capacity)
    /\ UNCHANGED <<place, at_root, dense, stayed>>

(* prepareData. *)
PrepareData ==
    /\ ~done
    /\ listed' = [e \in Entry |-> listed[e] + IF e \in Block THEN 1 ELSE 0]
    /\ position' = IF TooLong = {} THEN EndOfDir ELSE Seek(FirstOf(TooLong))
    /\ blocks' = blocks + 1
    /\ done' = (Block = {})
    /\ UNCHANGED <<place, at_root, dense, stayed>>

(* Another client's rm, mkdir or upload.                                   *)
Delete(e) ==
    /\ e \in DOMAIN place \ DotEntry
    /\ place' = [d \in DOMAIN place \ {e} |-> place[d]]
    /\ dense' = FALSE
    /\ stayed' = stayed \ {e}
    /\ UNCHANGED <<at_root, position, listed, blocks, done>>

Create(e, p) ==
    /\ e \notin DOMAIN place /\ listed[e] = 0
    /\ \A d \in DOMAIN place : place[d] # p
    /\ place' = [d \in DOMAIN place \cup {e} |-> IF d = e THEN p ELSE place[d]]
    /\ dense' = (dense /\ OneByOne(place'))
    /\ UNCHANGED <<at_root, position, listed, blocks, done, stayed>>

ListingInit ==
    /\ \E there \in SUBSET Entry :
          /\ DotEntry \subseteq there
          /\ place \in {f \in [there -> Position] :
                           \A d, e \in there : f[d] = f[e] => d = e}
          /\ stayed = there
    /\ dense = OneByOne(place)
    /\ at_root \in BOOLEAN
    /\ position = 1
    /\ listed = [e \in Entry |-> 0] /\ blocks = 0 /\ done = FALSE

ListingNext == \/ PrepareData
               \/ \E e \in Entry : Delete(e) \/ \E p \in Position : Create(e, p)

ListingSpec == ListingInit /\ [][ListingNext]_listingVars

-----------------------------------------------------------------------------
(* Properties. *)

ListingTypeOK ==
    /\ place \in [DOMAIN place -> Position] /\ DOMAIN place \subseteq Entry
    /\ \A d, e \in DOMAIN place : place[d] = place[e] => d = e
    /\ position \in 1 .. EndOfDir
    /\ listed \in [Entry -> Nat]
    /\ blocks \in Nat
    /\ at_root \in BOOLEAN /\ done \in BOOLEAN /\ dense \in BOOLEAN
    /\ stayed \subseteq DOMAIN place

Listed == {e \in Entry : listed[e] > 0}
Missing == {e \in stayed : Shown(e) /\ listed[e] = 0}

(* Nothing is listed twice, whatever seekdir makes of the position.        *)
ListedOnce == \A e \in Entry : listed[e] <= 1

(* Where entries are numbered one by one, the listing has them all.        *)
Complete == done /\ dense => Missing = {}

(* Elsewhere it misses at most one for each block that holds something,    *)
(* and each of these holds something new: the listing does not end early,  *)
(* and it ends.                                                            *)
MissesFew ==
    LET full == IF done THEN blocks - 1 ELSE blocks
    IN  /\ done => Cardinality(Missing) <= full
        /\ full <= Cardinality(Listed)

=============================================================================
