--------------------------- MODULE MCVideoCapture ---------------------------
(***************************************************************************)
(* Three instances of the capture and encoding of video, which setting     *)
(* tells apart: with a GPU and captures that fail; with a GPU and a stream *)
(* that is stopped, started and reset; and without a GPU, where another    *)
(* thread makes the encoders.                                              *)
(***************************************************************************)
EXTENDS VideoCapture

CONSTANTS FewResizes, ManyResizes

VARIABLE setting

Requests == INSTANCE VideoCapture WITH
    Resizes <- FewResizes, Starts <- 1, Resets <- 1, Faults <- 0
NoGpu == INSTANCE VideoCapture WITH
    Gpu <- FALSE, Resizes <- ManyResizes, Changes <- 1, Resets <- 1, Faults <- 0

MCInit ==
    \/ setting = "faults" /\ Init
    \/ setting = "requests" /\ Requests!Init
    \/ setting = "no gpu" /\ NoGpu!Init

MCNext ==
    /\ \/ setting = "faults" /\ Next
       \/ setting = "requests" /\ Requests!Next
       \/ setting = "no gpu" /\ NoGpu!Next
    /\ UNCHANGED setting

\* The threads run, in each of the settings.
MCFairness ==
    /\ WF_vars(setting = "faults" /\ Video)
    /\ WF_vars(setting = "faults" /\ Manager)
    /\ WF_vars(setting = "faults" /\ SetFlag)
    /\ WF_vars(setting = "requests" /\ Requests!Video)
    /\ WF_vars(setting = "requests" /\ Requests!Manager)
    /\ WF_vars(setting = "requests" /\ Requests!SetFlag)

MCSpec == MCInit /\ [][MCNext]_<<setting, vars>> /\ MCFairness
-----------------------------------------------------------------------------
\* With a GPU no CUDA context is used by two threads, an encoder goes with the device and the
\* context of the pictures it is given, and it takes them (linuxcapture.c:42 and 340,
\* video.c:265 and 374).  Without, no encoder is lost between the video thread and the factory,
\* and the one in use is not destroyed (video.c:90 and 399).  The first frame of another encoder
\* is an intra frame.
CaptureIsSound ==
    /\ ReferencesAreHeld
    /\ IF setting = "no gpu"
       THEN EncodersAreOwned
       ELSE ContextsAreApart /\ PictureIsInContext /\ EncoderWithinDevice /\ PictureIsTaken

\* The flag of a restart that is asked for is not cleared unseen, but between two lines while a
\* stream reset is dealt with, and the intra frame comes (video.c:819-829).
RequestsAreAnswered ==
    /\ [](setting = "requests" => RequestIsKept)
    /\ (setting = "requests" /\ asked = "yes" /\ client_size # 0)
           ~> (asked # "yes" \/ at \in Ended)
=============================================================================
