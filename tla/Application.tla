----------------------------- MODULE Application -----------------------------
(***************************************************************************)
(* The alarm clock application (src/): its programs and keys, the spray,   *)
(* the lamp and the music. The tasks of the last three share with the      *)
(* programs only the commands they are given, so that each part is checked *)
(* against every order of commands its own module allows: which part a     *)
(* behaviour is about is chosen at the start.                              *)
(***************************************************************************)
EXTENDS AromaControl, AromaSpray, AromaLight, AromaMusic

VARIABLE part

Init ==
  /\ part \in {"control", "spray", "light", "music"}
  /\ ControlInit /\ SprayInit /\ LightInit /\ MusicInit
  \* Only the control has more than one way to begin.
  /\ part # "control" => file = NoFile /\ clock.now = 0

Next ==
  /\ UNCHANGED part
  /\ \/ part = "control" /\ ControlNext /\ UNCHANGED <<sprays, lights, musics>>
     \/ part = "spray" /\ SprayNext /\ UNCHANGED <<control, lights, musics>>
     \/ part = "light" /\ LightNext /\ UNCHANGED <<control, sprays, musics>>
     \/ part = "music" /\ MusicNext /\ UNCHANGED <<control, sprays, lights>>

Spec == Init /\ [][Next]_<<part, control, sprays, lights, musics>>
=============================================================================
