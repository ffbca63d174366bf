----------------------------- MODULE MCAccounts -----------------------------
(***************************************************************************)
(* Small instances of Accounts for TLC: one page.                          *)
(***************************************************************************)
EXTENDS Accounts

CONSTANTS tab, ann, bob, Ann, w1, w2, short

OnePage == {tab}

\* Ann's account exists, and her address is typed with a capital letter.
TypedAs == [a \in {Ann, bob} |-> IF a = bob THEN bob ELSE ann]
AnnExists == [u \in {ann} |-> w1]
BothExist == [u \in {ann, bob} |-> IF u = ann THEN w1 ELSE w2]

AllKinds == Kinds
LoginOnly == {"login"}
=============================================================================
