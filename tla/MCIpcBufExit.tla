---------------------------- MODULE MCIpcBufExit ----------------------------
EXTENDS IpcBufExit
=============================================================================
