------------------------------ MODULE MCHostTasks ------------------------------
(* Two tasks of any two kinds for one instance, or for two when the second is  *)
(* a light task or a restore.                                                  *)
EXTENDS HostTasks, TLC

CONSTANTS i1, i2, e1, e2

TwoInstances == {i1, i2}
TwoExecutors == {e1, e2}
AllOnOne == [kind : Kinds, inst : {i1}]
SomeOnTwo == AllOnOne \cup [kind : {"light", "restore"}, inst : {i2}]
===============================================================================
