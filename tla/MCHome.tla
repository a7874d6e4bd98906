------------------------------- MODULE MCHome -------------------------------
(***************************************************************************)
(* Small instances of what every other service stands on: the accounts, the *)
(* tree of one of them, and the history of one of its files.  They share no *)
(* state here, and a behaviour is about one of them.                        *)
(***************************************************************************)
EXTENDS Accounts, FileTree, Versions

VARIABLE part

homeVars == <<part, accountVars, vars, versionVars>>

\* Node ids other than the root's, accounts, requests and session slots are
\* interchangeable.
HomeSymmetry == Permutations(Id \ {Root}) \cup Permutations(User)
                  \cup Permutations(Caller) \cup Permutations(Session)

\* Two names that differ in case only, and a third one.
Names == {"a", "A", "b"}
LowerCase == [n \in Names |-> IF n = "A" THEN "a" ELSE n]

\* Sizes that differ, so that the quota tells the contents apart; the first version is
\* the larger one, so that a restore can grow the file.
ContentSizes == "d1" :> 1 @@ "d2" :> 2

HomeInit ==
  /\ part \in {"accounts", "tree", "history"}
  /\ AccountInit /\ Init /\ VersionInit
  /\ part # "accounts" => Empty
  /\ disk[1] = "d2"

NotAccounts == UNCHANGED <<part, vars, versionVars>>
NotTree == UNCHANGED <<part, accountVars, versionVars>>
NotHistory == UNCHANGED <<part, accountVars, vars>>

HomeNext ==
  \/ part = "accounts" /\ AccountNext /\ NotAccounts
  \/ part = "tree" /\ Next /\ NotTree
  \/ part = "history" /\ VersionNext /\ NotHistory

HomeSpec == HomeInit /\ [][HomeNext]_homeVars

\* The state of all three has the shape that the schema and the handlers give it.
HomeTypeOK == AccountTypeOK /\ TypeOK /\ VersionTypeOK
=============================================================================
