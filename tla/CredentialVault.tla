--------------------------- MODULE CredentialVault ---------------------------
(***************************************************************************)
(* The protected Codex login (src/src/credential-vault.ts).  One encrypted *)
(* R2 object is shared by every agent attempt; each attempt has a D1       *)
(* checkout row that names the etag its copy was read under.  The login is *)
(* abstracted to the set of attempts whose refreshes it contains: an agent *)
(* that refreshes its copy adds itself to the copy's set.                  *)
(***************************************************************************)
EXTENDS Naturals, FiniteSets

CONSTANTS Attempts,     \* agent attempts, 1 .. n in the order of created_at
          MaxPuts       \* bound: successful writes of the object

ASSUME VaultAssumption == /\ Attempts \subseteq Nat \ {0}
                          /\ MaxPuts \in Nat

NoTag == 0
Other == 0              \* an attempt of another run
Refreshers == Attempts \cup {Other}
Tags == 1 .. MaxPuts + 1

VARIABLES object,       \* the R2 object: its etag and the refreshes it holds
          lease         \* the checkout rows: source etag, or NoTag for no row

vaultVars == <<object, lease>>

VaultType == /\ object \in [etag : Tags, holds : SUBSET Refreshers]
             /\ lease \in [Attempts -> Tags \cup {NoTag}]

VaultInit == /\ object = [etag |-> 1, holds |-> {}]
             /\ lease = [a \in Attempts |-> NoTag]

(* CredentialVault.acquire: the object is read and this attempt's row is   *)
(* inserted.                                                               *)
Acquire(a) ==
    /\ lease[a] = NoTag
    /\ lease' = [lease EXCEPT ![a] = object.etag]
    /\ UNCHANGED object

(* The conditional put of replaceAndRelease: it takes effect only while    *)
(* the object still carries the source etag.                               *)
Replace(source, holds) ==
    /\ object.etag = source
    /\ object.etag <= MaxPuts
    /\ object' = [etag |-> object.etag + 1, holds |-> holds]
    /\ UNCHANGED lease

(* recordRefresh: an UPDATE, so nothing happens when the row is gone.      *)
RecordRefresh(a, tag) ==
    /\ lease' = [lease EXCEPT ![a] = IF @ = NoTag THEN NoTag ELSE tag]
    /\ UNCHANGED object

(* release deletes the row.                                                *)
Release(a) == /\ lease' = [lease EXCEPT ![a] = NoTag]
              /\ UNCHANGED object
=============================================================================
