-------------------------------- MODULE Dmac --------------------------------
(***************************************************************************)
(* A stream of the STM32 DMA controller and the functions of               *)
(* arch/arm/mach-stm32/dmac.c that the SD host driver calls. Each function *)
(* runs with interrupts off and changes one stream, so it is an operator   *)
(* from the stream before the call to the stream after it. Priorities,     *)
(* widths, bursts and counts are left out: callers only pass constants.    *)
(***************************************************************************)

CONSTANTS Buffers, NoBuf   \* memory addresses, and the zero of a cleared M0AR

Dirs == {"p2m", "m2p"}

Stream == [in_use : BOOLEAN,                  \* stm32_dma_ch_get() was called
           en     : BOOLEAN,                  \* CR.EN
           dir    : Dirs,                     \* CR.DIR
           m0ar   : Buffers \cup {NoBuf}]

\* The early return of every function: -ENODEV if nobody has acquired the channel.
NotAcquired(s) == ~s.in_use

\* The set-up functions also refuse an enabled channel, with -EBUSY.
Denied(s) == NotAcquired(s) \/ s.en

ch_init(s, dir) ==
  IF Denied(s) THEN s ELSE [s EXCEPT !.dir = dir, !.m0ar = NoBuf]

ch_set_memory(s, addr) ==
  IF Denied(s) THEN s ELSE [s EXCEPT !.m0ar = addr]

ch_enable(s) ==
  IF NotAcquired(s) THEN s ELSE [s EXCEPT !.en = TRUE]

ch_disable(s) ==
  IF NotAcquired(s) THEN s ELSE [s EXCEPT !.en = FALSE]
=============================================================================
