------------------------------ MODULE MCWuiHost ------------------------------
(* The small instance of WuiHost.  ReleaseDist: builds that agree, differ,   *)
(* forget the release flag, leak, leave the placeholder, hold a link or      *)
(* built nothing.  HostPages: a tab with two requests that share its token,  *)
(* a tab that mints beside it, and a guard that holds two tokens.            *)
EXTENDS WuiHost

CONSTANTS tabA, tabB, call, again, other

MCTabs == {tabA, tabB}
MCCalls == {call, again, other}
MCTabOf == [c \in MCCalls |-> IF c = other THEN tabB ELSE tabA]
MCKinds ==
    {[c \in MCCalls |-> IF c = other THEN b ELSE IF c = call THEN a ELSE z] :
       <<a, z, b>> \in {<<"create", "create", "other">>, <<"gate", "gate", "gate">>,
                        <<"input", "interrupt", "other">>}}
MCGoals == {"g", "h"}
MCAllowances ==
    {[mints |-> 3, ages |-> 1, restarts |-> 1, failures |-> 1, aborts |-> 0],
     [mints |-> 4, ages |-> 2, restarts |-> 0, failures |-> 0, aborts |-> 1]}

Bundle == [shell |-> "app", marker |-> "release", files |-> TRUE, fit |-> TRUE,
           odd |-> FALSE, content |-> 1]

MCBuilds == {Bundle, [Bundle EXCEPT !.content = 2], [Bundle EXCEPT !.marker = "development"],
             [Bundle EXCEPT !.fit = FALSE], [Bundle EXCEPT !.shell = "placeholder"],
             [Bundle EXCEPT !.odd = TRUE], [Bundle EXCEPT !.files = FALSE]}
MCHeads == {[Bundle EXCEPT !.shell = "placeholder", !.marker = "development", !.files = FALSE],
            [Bundle EXCEPT !.content = 0]}
=============================================================================
