-------------------------------- MODULE MC_WebDAV --------------------------------
(* What one WebDAV request computes, for TLC: the bytes a Range header selects   *)
(* (ByteRange), the names of the folder it is about (FolderNames), and the       *)
(* traversal of a PROPFIND (FolderWalk). In each behaviour one of the three      *)
(* computes and the others are done: their products say nothing more.           *)
EXTENDS ByteRange, FolderNames, FolderWalk

FewNumbers == 0..6
FewLengths == -1..4

FewTracks == 1..3

\* The collections are 0 to 3; a walk may list three of the four. 5 and 6 have one
\* path.
FewNodes == 0..6
Tree == <<0, 0, 1, 2, 3, 3>>
TreePaths == [n \in FewNodes |-> IF n = 6 THEN 5 ELSE n]
FewFolders == 0..3

RangeRests == raw = [bytes |-> TRUE, comma |-> TRUE, parts |-> <<Empty>>] /\ size = 0 /\ got = Fails("invalid")
NamesRest == tracks = <<>> /\ resources = <<>> /\ children = {}
WalkRests ==
  /\ there = {0} /\ target = 1 /\ depth = "zero" /\ stage = "done" /\ status = 404
  /\ queue = <<>> /\ visited = {} /\ reported = <<>> /\ lists = 0 /\ kept = {0} /\ seen = {0}

MCInit ==
  \/ RangeInit /\ NamesRest /\ WalkRests
  \/ RangeRests /\ NamesInit /\ WalkRests
  \/ RangeRests /\ NamesRest /\ WalkInit

MCNext ==
  \/ Parse /\ UNCHANGED <<nameVars, walkVars>>
  \/ MakeTrackSnapshot /\ UNCHANGED <<rangeVars, walkVars>>
  \/ WalkNext /\ UNCHANGED <<rangeVars, nameVars>>

MCSpec == MCInit /\ [][MCNext]_<<rangeVars, nameVars, walkVars>>
=================================================================================
