------------------------------- MODULE MCServer -------------------------------
(* Instances of Server for TLC.  One unit of VRAM stands for 4096 MB.        *)
EXTENDS Server

OneGPU == [g \in GPUs |-> 2]
\* nvidia-smi while a task that has just started shows no usage yet.
IdleLine == {[index |-> {0}, util |-> {0}, used |-> {0}]}

\* The same with an index that is no number: the line counts for GPU 0.
NoIndexLine == {[index |-> {}, util |-> {0}, used |-> {0}]}

\* rocm-smi --showuse --json prints no VRAM, and numbers its cards from 0; without
\* --json the same card is GPU 1, which this machine does not have.
Card0 == {[card |-> 0, util |-> {50}, used |-> {}]}
CardLine == {[util |-> {50}]}
==============================================================================
