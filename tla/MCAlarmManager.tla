---------------------------- MODULE MCAlarmManager ---------------------------
(* AlarmManager on small instances.                                         *)
EXTENDS AlarmManager, TLC

\* Kinds, workers, operations of the app and queues are interchangeable.
Symmetry == Permutations(Kinds) \cup Permutations(Workers) \cup Permutations(Apps)
            \cup Permutations(Queues)

\* Bounds: on a new box, of which little can be said, one operation of the app
\* and no record that expires; on a used one, one record that expires, with two
\* operations and one alarm or one operation and two alarms.
FewOnNewBox == firstId = 0 => ops <= 1 /\ expired = {}
FewExpire == /\ Cardinality(expired) <= 1
             /\ expired # {} => direct = 0 /\ (jobs <= 1 \/ ops <= 1)
==============================================================================
