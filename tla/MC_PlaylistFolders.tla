---------------------------- MODULE MC_PlaylistFolders ----------------------------
(* Two playlists, which may have one title, for TLC. Two requests are enough for *)
(* one to wait for the other, on either level.                                   *)
EXTENDS PlaylistFolders
===================================================================================
