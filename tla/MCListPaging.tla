---------------------------- MODULE MCListPaging -----------------------------
(***************************************************************************)
(* ListPaging on a small instance: two of the small rules make a page, the *)
(* large one fills one alone to the last byte, and the huge one fits on    *)
(* none.  The test response {"success":true,"message":"test","data":[],    *)
(* "timestamp":1234567890} has 66 bytes.                                   *)
(***************************************************************************)
EXTENDS ListPaging

MCOverhead == 66
MCRules == {"small1", "small2", "small3", "large", "huge"}
MCWeight ==
    [r \in MCRules |-> CASE r = "huge" -> 2600
                         [] r = "large" -> PageLimit - MCOverhead
                         [] OTHER -> 1100]
MCFilters == {MCRules \ {"huge"}}

\* The copy in memory of the Windows backend: without a rule or with one.
MCFallbacks == {<<>>, <<"small3">>}

MCFewRules == {"small1", "small2", "small3"}
MCFewWeight == [r \in MCFewRules |-> 1100]

\* What the OpenWrt backend returns when uci fails.
MCNothing == {<<>>}
==============================================================================
