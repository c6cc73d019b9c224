------------------------------- MODULE MCFleet -------------------------------
(* Three repositories on pages of two, two workers, one death, for TLC.    *)
EXTENDS Fleet, TLC

Clean == [grade |-> NoGrade, suppressed |-> TRUE, score |-> 0, surface |-> 0,
          malicious |-> 0, critical |-> 0, moving |-> 0, actions |-> 0,
          flagged |-> FALSE, assessable |-> FALSE, controls |-> <<>>,
          exposure |-> {}, risk |-> <<>>, direct |-> 0, indirect |-> 0,
          introducers |-> {}]
Risky == [Clean EXCEPT !.grade = "D", !.suppressed = FALSE, !.score = 60, !.surface = 4,
          !.critical = 1, !.moving = 1, !.actions = 2, !.assessable = TRUE,
          !.exposure = {[surface |-> "manifest", checked |-> 2, affected |-> 1],
                        [surface |-> "inherited", checked |-> 5, affected |-> 2]},
          !.direct = 1, !.indirect = 2, !.risk = [c \in {"unmaintained"} |-> 2],
          !.introducers = {[name |-> "lib", version |-> 1, affected |-> 2]}]
CONSTANTS r1, r2, r3
MCReportOf == [r \in Repo |-> IF r = r1 THEN Clean ELSE Risky]
MCOrders == {<<r1, r2, r3>>, <<r2, r1, r3>>}
==============================================================================
