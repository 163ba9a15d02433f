----------------------------- MODULE MCCapture -----------------------------
EXTENDS CaptureProps
=============================================================================
