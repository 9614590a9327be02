-------------------------- MODULE FileDimensions --------------------------
(***************************************************************************)
(* The dimensions of files, which those who write and those who read them  *)
(* must have alike.                                                        *)
(***************************************************************************)
CONSTANTS
  NSamples,  \* samples of a buffer, n_samples
  FileSize   \* buffers of a full partition, FILE_SIZE_GIGABYTES
=============================================================================
