------------------------------ MODULE MCWorkbench ------------------------------
(* Workbench for TLC: a showroom at work, one whose sale is partly paid and one whose *)
(* sale is cancelled, one not onboarded, one on trial with its seats taken, and one   *)
(* on trial with a claim and neither stock nor sales.                                 *)
EXTENDS Workbench

AtWork ==
  [sale |-> "ACTIVE", item |-> "SOLD", installment |-> "due", customer |-> "archived",
   supplier |-> "archived", debt |-> "owed", expense |-> "there", staff |-> "active",
   plan |-> "running", claim |-> "none", onboarded |-> "yes", bell |-> "unread",
   showroom |-> "active", profile |-> "carried", administrator |-> "active", wish |-> "asked",
   trail |-> "some"]
Stocked == [AtWork EXCEPT !.item = "IN_STOCK", !.installment = "some", !.supplier = "active",
                          !.debt = "settled"]
Shelved == [AtWork EXCEPT !.item = "archived", !.claim = "PENDING"]
Voided  == [AtWork EXCEPT !.sale = "CANCELLED"]
Fresh   == [AtWork EXCEPT !.onboarded = "no", !.staff = "inactive"]
OnTrial == [Fresh EXCEPT !.plan = "trial", !.staff = "full"]
Closing ==
  [AtWork EXCEPT !.sale = "none", !.item = "none", !.installment = "none",
                 !.customer = "active", !.supplier = "active", !.plan = "trial",
                 !.claim = "PENDING"]
MCStarts == [world : {AtWork, Voided}, role : {"STAFF"}] \cup
            [world : {Stocked, Shelved, Fresh, OnTrial}, role : {"OWNER"}] \cup
            [world : {Closing}, role : {"OWNER", "ROOT"}]
=============================================================================
