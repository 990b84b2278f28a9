----------------------------- MODULE MCDeviceIo -----------------------------
(* DeviceIo with two flash devices on one interrupt line and the terminal  *)
(* whose registers are the last of all.                                    *)
EXTENDS DeviceIo

InstalledDevs == {<<4, 0>>, <<4, 1>>, <<7, 7>>}
=============================================================================
