------------------------------ MODULE MCIpcBuf ------------------------------
EXTENDS IpcBufStream, TLC

ReaderSymmetry == Permutations(Readers)
=============================================================================
