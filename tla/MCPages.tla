--------------------------------- MODULE MCPages ---------------------------------
(***************************************************************************)
(* Two accounts, which are each other's verifiers; two contexts with rows; *)
(* a claim with each account's CID and one without, and a CID that is      *)
(* typed; one word for contexts that are typed, in every way to write it.  *)
(***************************************************************************)
EXTENDS Pages, TLC

CONSTANTS work, home, degree, job, jwt, bio, links, pasted

MCWords   == {work, home}
Plain(w)  == [word |-> w, upper |-> FALSE, mark |-> "plain"]

MCLogContexts      == {Plain(work), Plain(home)}
MCFilters          == {None, Plain(work), Unsafe}
MCTyped            == {[word |-> work, upper |-> m = "plain", mark |-> m] :
                         m \in {"plain", "hyphen", "dashes", "blank", "foreign", "long"}}
MCDefaultContexts  == {}
MCVerifierContexts == {Plain(work)}
MCClaimIds         == {degree, job}
MCCids             == ({degree} \X Accounts) \cup {pasted}
MCTypedCids        == {pasted}
MCSuggestedFor     ==
  [a \in Accounts |-> {[claim |-> degree, cid |-> <<degree, a>>, ctx |-> Plain(work)],
                       [claim |-> job, cid |-> None, ctx |-> Plain(work)]}]
MCItems            == <<jwt>>

\* The accounts are alike, and so are the values of a setting and the fields of the form.
\* No page has values and fields both, so the two are exchanged together.
Other(S) == [x \in S |-> CHOOSE y \in S : y # x]
Symmetry == Permutations(Accounts) \cup {Other(Values) @@ Other(Fields)}

\* Once a claim was chosen where its CID goes into another row, or an erasure has ended
\* amid a check or a creation, the properties that name these races promise nothing any
\* more: such states are not followed further.
Telling == ~crossed /\ ~late
================================================================================
