----------------------------- MODULE AngularTab -----------------------------
(***************************************************************************)
(* A browser tab with one of the Angular apps, the kiosk or the staff      *)
(* console, started as provideRuntimeConfig has it: config.json first, and *)
(* no app without it (runtime-config.service.ts).                          *)
(***************************************************************************)
EXTENDS StaffConsole, Kiosk

VARIABLES
  app,     \* the address opened
  config   \* of RuntimeConfigService: null, loaded, or never to be

vars == <<app, config, staffVars, kioskVars>>

Init == app \in {"kiosk", "staff"} /\ config = "null" /\ StaffInit /\ KioskInit

(* load, before anything else: its failure leaves a blank page. *)
Load ==
  /\ config = "null" /\ config' \in {"loaded", "failed"}
  /\ UNCHANGED <<app, staffVars, kioskVars>>

Reload ==
  /\ config = "failed" /\ config' = "null"
  /\ UNCHANGED <<app, staffVars, kioskVars>>

Runs(a) == app = a /\ config = "loaded" /\ UNCHANGED <<app, config>>
Staff(Step) == Runs("staff") /\ Step /\ UNCHANGED kioskVars
AtKiosk(Step) == Runs("kiosk") /\ Step /\ UNCHANGED staffVars

Next == Load \/ Reload \/ Staff(StaffNext) \/ AtKiosk(KioskNext)

Spec == Init /\ [][Next]_vars

(***************************************************************************)
(* Browsers run their passes, timers fire, and a request of the console is *)
(* served and answered, or fails. Nobody has to click, or to reload.       *)
(***************************************************************************)
Fairness ==
  /\ WF_vars(Staff(Render))
  /\ WF_vars(Staff(VerifyServed)) /\ WF_vars(Staff(Verified))
  /\ WF_vars(Staff(ActionServed)) /\ WF_vars(Staff(Acted))
  /\ WF_vars(AtKiosk(Repaint)) /\ \A v \in Visits : WF_vars(AtKiosk(Tick(v)))

FairSpec == Spec /\ Fairness

(* Type invariant. *)
TypeOK == app \in {"kiosk", "staff"} /\ config \in {"null", "loaded", "failed"} /\ StaffTypeOK /\ KioskTypeOK
=============================================================================
