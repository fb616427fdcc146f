--------------------------- MODULE MCHostedLists ---------------------------
(* Instances of HostedLists for TLC.                                             *)
EXTENDS HostedLists

CONSTANTS t1, t2

(* An album each of two artists, of one genre.                                   *)
TrackTags ==
    [t \in Track |->
       IF t = t1 THEN [artist |-> "a", album |-> "x", genre |-> "g"]
       ELSE [artist |-> "b", album |-> "y", genre |-> "g"]]

(* "Artist\Album" and "Genre\Artist\Album".                                      *)
TwoPresets == <<<<"artist", "album">>, <<"genre", "artist", "album">>>>

(* One root of every kind: a leaf, an open folder and an empty one.              *)
FallbackTree ==
    <<[label |-> "Now Playing", provider |-> FALSE, kids |-> <<>>, open |-> FALSE],
      [label |-> "Local Library", provider |-> TRUE, kids |-> <<"Audio", "Video">>, open |-> TRUE],
      [label |-> "Playlists", provider |-> TRUE, kids |-> <<>>, open |-> FALSE]>>
=============================================================================
