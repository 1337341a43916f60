------------------------------- MODULE MCIpcIo ------------------------------
(* ipcio for TLC: the constants are given in the configuration. *)
EXTENDS IpcIoStream
=============================================================================
