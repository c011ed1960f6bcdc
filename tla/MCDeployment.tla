---------------------------- MODULE MCDeployment ----------------------------
(***************************************************************************)
(* The deploy script and the dashboard with one shipped timer and one that *)
(* only the user makes.  A revision's number is what it ships.             *)
(***************************************************************************)
EXTENDS Deployment

Numbers == 1 .. 3
SavedContents == {11, 12}

EveryFault == {"request", "quiet", "pip", "migrate", "doctor", "kill"}
DoctorFails == {"doctor"}
=============================================================================
