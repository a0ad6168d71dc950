----------------------------- MODULE PolicyVault -----------------------------
(***************************************************************************)
(* The safeguards a user keeps in the browser (microvern-policy-vault.js,  *)
(* policies.html): contacts and policies in local storage, edited in tabs  *)
(* that each read the store once, and the draft that a policy hands to the *)
(* intent check (intent.html).                                             *)
(*                                                                         *)
(* A contact is its address; "rest" stands for a policy's assets, maxima   *)
(* and network.                                                            *)
(***************************************************************************)
EXTENDS Integers

CONSTANTS
  Empty,        \* nothing is stored, or no tab is open
  Damaged,      \* what is stored is not a vault
  Contacts,     \* addresses
  Rests, NoRest,
  Tabs,
  MaxPolicies   \* bound: policies ever saved

Boundary == [recipients : SUBSET Contacts, rest : Rests]
SavedPolicy == [id : 1..MaxPolicies, boundary : Boundary]
Vault == [contacts : SUBSET Contacts, policies : SUBSET SavedPolicy]

ASSUME VaultAssumption ==
  /\ NoRest \in Rests /\ MaxPolicies \in Nat
  /\ Empty \notin Vault /\ Damaged \notin Vault

VARIABLES
  vault,     \* the stored vault, Empty, or Damaged
  open,      \* tab -> the vault it has read and edits, or Empty
  draft,     \* the stored intent draft, or Empty
  saved      \* every policy as it was saved

vaultVars == <<vault, open, draft, saved>>

EmptyVault == [contacts |-> {}, policies |-> {}]

VaultInit ==
  /\ vault \in {Empty, Damaged}
  /\ open = [tab \in Tabs |-> Empty]
  /\ draft = Empty /\ saved = {}

(* A vault that cannot be read is edited as an empty one.                  *)
Open(tab) ==
  /\ open' = [open EXCEPT ![tab] = IF vault \in {Empty, Damaged} THEN EmptyVault ELSE vault]
  /\ UNCHANGED <<vault, draft, saved>>

(* writePolicyVault: the tab's vault replaces what is stored.              *)
Write(tab, edited) ==
  /\ open[tab] # Empty
  /\ vault' = edited /\ open' = [open EXCEPT ![tab] = edited]
  /\ UNCHANGED draft

SaveContact(tab, a) ==
  Write(tab, [open[tab] EXCEPT !.contacts = @ \union {a}]) /\ UNCHANGED saved

(* Mutant of RemoveContact: the policies that name the contact go with it. *)
RemoveContactEverywhere(tab, a) ==
  /\ open[tab] # Empty /\ a \in open[tab].contacts
  /\ Write(tab, [contacts |-> open[tab].contacts \ {a},
                 policies |-> {p \in open[tab].policies : a \notin p.boundary.recipients}])
  /\ UNCHANGED saved

RemoveContact(tab, a) ==
  /\ open[tab] # Empty /\ a \in open[tab].contacts
  /\ Write(tab, [open[tab] EXCEPT !.contacts = @ \ {a}]) /\ UNCHANGED saved

(* A fresh id, contacts of the tab's list, and at least one boundary.      *)
SavePolicy(tab, b) ==
  /\ open[tab] # Empty
  /\ b.recipients \subseteq open[tab].contacts
  /\ b.recipients # {} \/ b.rest # NoRest
  /\ \E id \in 1..MaxPolicies :
       /\ \A p \in saved : p.id < id
       /\ \A n \in 1..(id - 1) : \E p \in saved : p.id = n
       /\ saved' = saved \union {[id |-> id, boundary |-> b]}
       /\ Write(tab, [open[tab] EXCEPT !.policies = @ \union {[id |-> id, boundary |-> b]}])

RemovePolicy(tab, p) ==
  /\ open[tab] # Empty /\ p \in open[tab].policies
  /\ Write(tab, [open[tab] EXCEPT !.policies = @ \ {p}]) /\ UNCHANGED saved

(* Mutant of PolicyToIntentDraft: only who is still a contact is expected. *)
DraftOfContacts(p, contacts) == [p.boundary EXCEPT !.recipients = @ \intersect contacts]

(* The policy's recipients stay, whether or not they are still contacts.   *)
PolicyToIntentDraft(p, contacts) == p.boundary

UsePolicy(tab, p) ==
  /\ open[tab] # Empty /\ p \in open[tab].policies
  /\ draft' = PolicyToIntentDraft(p, open[tab].contacts)
  /\ UNCHANGED <<vault, open, saved>>

VaultStep ==
  \E tab \in Tabs :
    \/ Open(tab)
    \/ \E a \in Contacts : SaveContact(tab, a) \/ RemoveContact(tab, a)
    \/ \E b \in Boundary : SavePolicy(tab, b)
    \/ \E p \in SavedPolicy : RemovePolicy(tab, p) \/ UsePolicy(tab, p)

-----------------------------------------------------------------------------
VaultTypeOK ==
  /\ vault \in Vault \union {Empty, Damaged}
  /\ open \in [Tabs -> Vault \union {Empty}]
  /\ draft \in Boundary \union {Empty} /\ saved \subseteq SavedPolicy

(* "Do not silently weaken a saved safeguard": the draft that the intent   *)
(* check is given is exactly a boundary the user has saved, whichever      *)
(* contacts were removed since, in this tab or in another; and it declares *)
(* something.                                                              *)
SafeguardsAreKept ==
  draft # Empty =>
    /\ \E p \in saved : draft = p.boundary
    /\ draft.recipients # {} \/ draft.rest # NoRest

Stored == IF vault \in {Empty, Damaged} THEN {} ELSE vault.policies
Edited(tab) == IF open[tab] = Empty THEN {} ELSE open[tab].policies

Writes(tab) == open[tab] # Empty /\ vault' = open'[tab]

(* Tabs overwrite each other, but only out of ignorance.  A policy leaves  *)
(* the store by the hand that removes it, or because the tab that writes   *)
(* does not know it: it read the store before the policy was there, or     *)
(* could not read it, or has removed it itself.  And one that was removed  *)
(* comes back only from a tab that has kept it.                            *)
OverwritesAreStale ==
  [][/\ \A p \in Stored \ Stored' :
          \E tab \in Tabs : RemovePolicy(tab, p) \/ (Writes(tab) /\ p \notin Edited(tab))
     /\ \A p \in (Stored' \ Stored) \intersect saved :
          \E tab \in Tabs : Writes(tab) /\ p \in Edited(tab)]_vaultVars

-----------------------------------------------------------------------------
(* The inductive invariant: whatever a tab edits or the store holds, its   *)
(* policies are as they were saved.                                        *)
AsSaved(v) == v.policies \subseteq saved

VaultInv ==
  /\ VaultTypeOK
  /\ vault \notin {Empty, Damaged} => AsSaved(vault)
  /\ \A tab \in Tabs : open[tab] # Empty => AsSaved(open[tab])
  /\ \A p \in saved : p.boundary.recipients # {} \/ p.boundary.rest # NoRest
  /\ SafeguardsAreKept
=============================================================================
