------------------------------ MODULE MCAccounts ------------------------------
(* Accounts over model values: requests and Firebase's uids are            *)
(* interchangeable.  And the billing of the address, which shares no state *)
(* with its account: a behaviour is one of the account or one of billing.  *)
EXTENDS Accounts, Billing, TLC
Symmetry == Permutations(Requests) \cup Permutations(FirebaseUids)

VARIABLE about   \* "account" or "billing"

OfAccount == about = "account" /\ UNCHANGED <<about, billingVars>>
OfBilling == about = "billing" /\ UNCHANGED <<about, vars>>

AddressInit ==
    /\ Init /\ BillingInit
    /\ \/ about = "account" /\ customer[Earlier].exists
       \/ about = "billing" /\ rec = NoRecord

AddressNext == (OfAccount /\ Next) \/ (OfBilling /\ BillingNext)
AddressSpec == AddressInit /\ [][AddressNext]_<<about, vars, billingVars>>
=============================================================================
