---------------------------- MODULE BinarySearch ----------------------------
(***************************************************************************)
(* bsearch of lib/libc/src/stdlib.c, one comparison at a time.  The array  *)
(* is what the comparison makes of it: members in front of the key, equal  *)
(* to it, and behind it.  A comparison that is not an order, or an array   *)
(* that is not sorted by it, may answer anything.                          *)
(***************************************************************************)
EXTENDS Integers

CONSTANT MaxMembers   (* of an array *)

(* nmemb, a size_t, is held in an int. *)
ASSUME MembersAssumption == MaxMembers \in Nat

VARIABLES
  searching,     (* "idle", "probing" or "found": what bsearch is at      *)
  nmemb,         (* the members of the array ...                          *)
  equal, behind, (* ... the first that is not in front of the key, and    *)
                 (* the first behind it                                   *)
  comparison,    (* "ordered" if it goes by these, or "arbitrary"         *)
  start, limit,  (* the members left: start .. start + limit - 1            *)
  found          (* what bsearch returns: a member, or NotFound           *)

searchVars == <<searching, nmemb, equal, behind, comparison, start, limit, found>>

NotFound == -1

(* No call is under way. *)
InitSearch ==
  /\ searching = "idle" /\ comparison = "arbitrary"
  /\ nmemb = 0 /\ equal = 0 /\ behind = 0 /\ start = 0 /\ limit = 0
  /\ found = NotFound

CallBsearch ==
  /\ searching = "idle" /\ searching' = "probing"
  /\ nmemb' \in 0 .. MaxMembers
  /\ equal' \in 0 .. nmemb' /\ behind' \in equal' .. nmemb'
  /\ comparison' \in {"ordered", "arbitrary"}
  /\ start' = 0 /\ limit' = nmemb'
  /\ UNCHANGED found

pointer == start + limit \div 2

Comparison ==
  IF comparison = "arbitrary" THEN {-1, 0, 1}
  ELSE {IF pointer < equal THEN 1 ELSE IF pointer < behind THEN 0 ELSE -1}

ReturnMember(member) ==
  /\ searching' = "found" /\ found' = member
  /\ UNCHANGED <<nmemb, equal, behind, comparison, start, limit>>

(* Mutant: the limit is halved as it is when the key lies in front. *)
UpperHalf_Long(left) == left \div 2

UpperHalf(left) == (left - 1) \div 2

ProbeHits == 0 \in Comparison /\ ReturnMember(pointer)

ProbeGoesUp ==
  /\ 1 \in Comparison
  /\ start' = pointer + 1 /\ limit' = UpperHalf(limit)
  /\ UNCHANGED <<searching, nmemb, equal, behind, comparison, found>>

ProbeGoesDown ==
  /\ -1 \in Comparison
  /\ limit' = limit \div 2
  /\ UNCHANGED <<searching, nmemb, equal, behind, comparison, start, found>>

Probe == searching = "probing" /\ limit # 0 /\ (ProbeHits \/ ProbeGoesUp \/ ProbeGoesDown)

GiveUp == searching = "probing" /\ limit = 0 /\ ReturnMember(NotFound)

(* The caller has what bsearch returned. *)
EndBsearch ==
  /\ searching = "found" /\ searching' = "idle" /\ comparison' = "arbitrary"
  /\ nmemb' = 0 /\ equal' = 0 /\ behind' = 0 /\ start' = 0 /\ limit' = 0
  /\ found' = NotFound

NextSearch == CallBsearch \/ Probe \/ GiveUp \/ EndBsearch

SearchSpec == InitSearch /\ [][NextSearch]_searchVars
-----------------------------------------------------------------------------
SearchTypeOK ==
  /\ searching \in {"idle", "probing", "found"} /\ comparison \in {"ordered", "arbitrary"}
  /\ nmemb \in 0 .. MaxMembers /\ equal \in 0 .. nmemb /\ behind \in equal .. nmemb
  /\ start \in Nat /\ limit \in Nat /\ found \in {NotFound} \cup 0 .. MaxMembers - 1

(* The members left are members, and as long as the comparison is an order *)
(* some of them are equal to the key when any member is.                   *)
KeyIsLeft ==
  searching = "probing" =>
    /\ start + limit <= nmemb
    /\ comparison = "ordered" /\ equal < behind =>
         limit # 0 /\ equal < start + limit /\ start < behind

ProbesMembers == searching = "probing" /\ limit # 0 => pointer \in 0 .. nmemb - 1

ReturnsKey ==
  searching = "found" /\ comparison = "ordered" =>
    IF equal = behind THEN found = NotFound ELSE found \in equal .. behind - 1

(* bsearch never looks outside the array, whatever the comparison answers; *)
(* and when that is an order, it returns a member that is equal to the     *)
(* key, or that there is none.                                             *)
FindsKey == ProbesMembers /\ ReturnsKey

SearchInv == SearchTypeOK /\ KeyIsLeft /\ ReturnsKey
=============================================================================
