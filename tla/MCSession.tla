------------------------------ MODULE MCSession ------------------------------
(* The instance of Session that TLC checks. *)
EXTENDS Session, TLC

CONSTANTS t1, t2, anil, bina

MCTabs == {t1, t2}
MCUsers == {anil, bina}
MCLeavers == {bina}
MCWorked == {t1}
=============================================================================
