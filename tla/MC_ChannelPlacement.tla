------------------------ MODULE MC_ChannelPlacement ------------------------
EXTENDS ChannelPlacement

(***************************************************************************)
(* Every distinct layout of the builds coroutine.c supports, from its      *)
(* CONTEXT_BUF_SIZE_BYTES and STACK_ALIGNMENT and the pointer size:        *)
(* x86_64; aarch64, riscv64 and PPC64; arm; i386; riscv32; m68k; AVR;      *)
(* mips64; mips32; SH4; OR1K.                                              *)
(***************************************************************************)
MCArches ==
    { [ctx |-> 24, ptr |-> 8, align |-> 64],
      [ctx |-> 32, ptr |-> 8, align |-> 64],
      [ctx |-> 4,  ptr |-> 4, align |-> 8],
      [ctx |-> 12, ptr |-> 4, align |-> 16],
      [ctx |-> 32, ptr |-> 4, align |-> 64],
      [ctx |-> 16, ptr |-> 4, align |-> 16],
      [ctx |-> 8,  ptr |-> 2, align |-> 1],
      [ctx |-> 16, ptr |-> 8, align |-> 64],
      [ctx |-> 16, ptr |-> 4, align |-> 64],
      [ctx |-> 16, ptr |-> 4, align |-> 8],
      [ctx |-> 12, ptr |-> 4, align |-> 64] }

\* Array addresses: unaligned, 8-aligned, one short of 64, 64-aligned, page-aligned.
MCBases == {1, 8, 63, 64, 1000, 4096}
=============================================================================
