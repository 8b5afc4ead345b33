----------------------------- MODULE MC_UsbLink -----------------------------
EXTENDS UsbLink
MCIds == 1 .. 3
MCKinds == {"short", "long", "subscribe", "unsubscribe", "over"}
MCFrames == LinkFrames
=============================================================================
