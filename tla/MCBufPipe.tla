------------------------------ MODULE MCBufPipe ------------------------------
EXTENDS BufPipe
=============================================================================
