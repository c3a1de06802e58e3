------------------------ MODULE MCScreenshotUpload ------------------------
(* An instance of ScreenshotUpload for TLC. *)
EXTENDS ScreenshotUpload

CONSTANTS loop, resume
=============================================================================
