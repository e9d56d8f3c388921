------------------------------- MODULE MCCapture -------------------------------
(* A music URL, a video and a playlist; the first two suffice to follow jobs. *)
EXTENDS Capture, TLC

CONSTANTS song, clip, mix

MCUrls == {song, clip, mix}
MCKindOf == song :> "music" @@ clip :> "video" @@ mix :> "playlist"

MCTwoUrls == {song, clip}
MCKindOfTwo == song :> "music" @@ clip :> "video"
===============================================================================
