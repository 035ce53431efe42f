---------------------------- MODULE MCTransfer ----------------------------
(***************************************************************************)
(* Instances of Transfer, Upload, Settings and Enrolment for TLC. The four *)
(* share no state, so that one instance explores them one at a time: a     *)
(* component moves while the others are in their initial states.           *)
(***************************************************************************)
EXTENDS Transfer, Upload, Settings, Enrolment

StagingVars == <<vars, uploadVars, settingsVars, enrolmentVars>>

StagingInit == Init /\ UploadInit /\ SettingsInit /\ EnrolmentInit

StagingNext ==
  \/ UploadInit /\ SettingsInit /\ EnrolmentInit /\ Next
     /\ UNCHANGED <<uploadVars, settingsVars, enrolmentVars>>
  \/ Init /\ SettingsInit /\ EnrolmentInit /\ UploadNext
     /\ UNCHANGED <<vars, settingsVars, enrolmentVars>>
  \/ Init /\ UploadInit /\ EnrolmentInit /\ SettingsNext
     /\ UNCHANGED <<vars, uploadVars, enrolmentVars>>
  \/ Init /\ UploadInit /\ SettingsInit /\ EnrolmentNext
     /\ UNCHANGED <<vars, uploadVars, settingsVars>>

\* Only Transfer has a liveness property.
StagingSpec == StagingInit /\ [][StagingNext]_StagingVars /\ Fairness
==========================================================================
