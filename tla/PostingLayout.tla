--------------------------- MODULE PostingLayout ---------------------------
(***************************************************************************)
(* SelectPostingOffset of ExtraStaticSearcher: where the posting lists of  *)
(* one file of a static SPANN index lie.  A list may begin in the middle   *)
(* of a page, after the end of another, but only where it does not reach   *)
(* into one page more than its length needs, since the reader fetches as   *)
(* many pages as the length alone gives.                                   *)
(*                                                                         *)
(* A layout is the state of the loop: the lists still to place, the place  *)
(* where the next one may begin, and what has been placed, in the order of *)
(* the file.  Lists are numbered from 0 and bytes[i] is the length of list *)
(* i; a list of no bytes is not placed.                                    *)
(***************************************************************************)
EXTENDS Integers, Sequences

CONSTANT PageSize

ASSUME PageSizeAssumption == PageSize \in Nat \ {0}

Rest(bytes, i) == bytes[i] % PageSize

LayoutStart(bytes) ==
    [left |-> {i \in DOMAIN bytes : bytes[i] # 0},
     page |-> 0, offset |-> 0,
     num |-> [i \in DOMAIN bytes |-> 0],        \* p_postPageNum
     off |-> [i \in DOMAIN bytes |-> 0],        \* p_postPageOffset
     order |-> <<>>]                            \* p_postingOrderInIndex

\* The lists whose last, partial page fits into what is left of this page.
Fitting(bytes, lay) == {i \in lay.left : Rest(bytes, i) <= PageSize - lay.offset}

\* lower_bound in the set ordered by rest, the largest first, then by number.
IsFirstFit(bytes, lay, i) ==
    /\ i \in Fitting(bytes, lay)
    /\ \A j \in Fitting(bytes, lay) :
          \/ Rest(bytes, j) < Rest(bytes, i)
          \/ Rest(bytes, j) = Rest(bytes, i) /\ i <= j

\* Whole pages begin at the beginning of a page.
CanPlace_Anywhere(bytes, lay, i) == IsFirstFit(bytes, lay, i)

CanPlace(bytes, lay, i) ==
    /\ IsFirstFit(bytes, lay, i)
    /\ lay.offset # 0 => Rest(bytes, i) # 0

\* The place after list i, which begins at the current place.
PageAfter(bytes, lay, i) ==
    lay.page + (bytes[i] \div PageSize) + (IF lay.offset + Rest(bytes, i) = PageSize THEN 1 ELSE 0)
OffsetAfter(bytes, lay, i) ==
    IF lay.offset + Rest(bytes, i) = PageSize THEN 0 ELSE lay.offset + Rest(bytes, i)

Place(bytes, lay, i) ==
    [lay EXCEPT !.left = @ \ {i}, !.num[i] = lay.page, !.off[i] = lay.offset, !.order = Append(@, i),
                !.page = PageAfter(bytes, lay, i), !.offset = OffsetAfter(bytes, lay, i)]

TurnPage(lay) == [lay EXCEPT !.page = @ + 1, !.offset = 0]

\* One turn of the loop.
LayoutStep(bytes, lay) ==
    IF \E i \in lay.left : CanPlace(bytes, lay, i)
    THEN Place(bytes, lay, CHOOSE i \in lay.left : CanPlace(bytes, lay, i))
    ELSE TurnPage(lay)

Begin(lay, i) == lay.num[i] * PageSize + lay.off[i]
NextPlace(lay) == lay.page * PageSize + lay.offset

\* The pages the header gives for a list: its length alone decides.
PagesOf(bytes, i) == (bytes[i] + PageSize - 1) \div PageSize

Placed(lay) == {i \in DOMAIN lay.num : \E n \in DOMAIN lay.order : lay.order[n] = i}

LayoutSound(bytes, lay) ==
    /\ \A i \in Placed(lay) :
          /\ lay.off[i] + bytes[i] <= PagesOf(bytes, i) * PageSize
          /\ Begin(lay, i) + bytes[i] <= NextPlace(lay)
    /\ \A i, j \in Placed(lay) :
          i # j => Begin(lay, i) + bytes[i] <= Begin(lay, j) \/ Begin(lay, j) + bytes[j] <= Begin(lay, i)
=============================================================================
