----------------------------- MODULE SoundCard ------------------------------
(* The voxware driver (server/dda/voxware/auvoxware.c): the output and input  *)
(* device with the rates they are set to, and the interval timer.             *)
(*                                                                            *)
(* Every operator is a function of the driver on "card", its static variables *)
(* and what the devices were told.  Opening a device succeeds.                *)
EXTENDS Naturals

CONSTANTS MinRate, MaxRate,  \* what the devices can do
          Nearest,           \* the rate that an inexact device takes for another
          Setups             \* [release, shared, exact]: configurations

ASSUME RatesAssumption ==
    /\ MinRate \in Nat \ {0} /\ MaxRate \in Nat /\ MinRate <= MaxRate
    /\ Nearest \in [MinRate .. MaxRate -> MinRate .. MaxRate]
    /\ Setups \subseteq [release : BOOLEAN, shared : BOOLEAN, exact : BOOLEAN]

\* open is sndStatOut.fd # -1; input says whether sndStatIn.fd is -1, the
\* output's or one of its own; armed, whether the interval timer runs.
Cards == [setup : Setups, open : BOOLEAN, input : {"none", "out", "own"},
          outRate : Nat, inRate : Nat, armed : BOOLEAN, enabled : BOOLEAN]

\* ioctl(SNDCTL_DSP_SPEED): what an open device makes of a rate.
Speed(c, open, r) == IF open /\ ~c.setup.exact THEN Nearest[r] ELSE r

\* setTimer with a rate and with 0; how often it ticks is not modelled.
StartTimer(c) == [c EXCEPT !.armed = TRUE]
StopTimer(c) == [c EXCEPT !.armed = FALSE]

\* Mutant: the rate of the input stays as it is.
SetOutputRate(c, r) ==
    StartTimer([c EXCEPT !.outRate = IF @ = r THEN r ELSE Speed(c, c.open, r)])

\* setSampleRate: the rates are remembered, whether or not a device is open to
\* be told; then the timer is started.
SetSampleRate(c, r) ==
    LET out == IF c.outRate = r THEN r ELSE Speed(c, c.open, r)
    IN  StartTimer([c EXCEPT !.outRate = out,
                             !.inRate = IF c.open /\ c.input = "out" THEN out
                                        ELSE IF @ = r THEN r ELSE Speed(c, c.input # "none", r)])

\* setupSoundcard: "at maximum audio quality".
SetupSoundcard(c, device) == [c EXCEPT ![device] = MaxRate]

\* openDevice: devices that were closed start at their maximum, and get the rate
\* back that was remembered.  An input that is open already becomes the output's.
OpenDevice(c) ==
    LET own == c.input = "none" /\ ~c.setup.shared
        out == IF c.open THEN c ELSE SetupSoundcard([c EXCEPT !.open = TRUE], "outRate")
        in == IF own THEN SetupSoundcard([out EXCEPT !.input = "own"], "inRate")
              ELSE [out EXCEPT !.input = "out"]
    IN  SetSampleRate(in, c.outRate)

\* closeDevice closes what is not shared twice when the input is the output, and
\* waits for the second close to succeed.
Closes(c) == ~c.setup.release \/ c.setup.shared \/ c.input # "out"

CloseDevice(c) == [c EXCEPT !.open = FALSE, !.input = "none"]

Released(c) == IF c.setup.release THEN CloseDevice(c) ELSE c

\* enableProcessFlow.
EnableProcessFlow(c) ==
    [(IF c.setup.release THEN OpenDevice(c) ELSE c) EXCEPT !.enabled = TRUE]

\* disableProcessFlow.
DisableProcessFlow(c) == Released([c EXCEPT !.enabled = FALSE])

\* serverReset, and AuInitPhysicalDevices for the next generation.
ResetCard(c) == Released([StopTimer(c) EXCEPT !.enabled = FALSE])

\* AuInitPhysicalDevices and createServerComponents when the server starts.
NewCard(setup) ==
    Released([setup |-> setup, open |-> TRUE, input |-> IF setup.shared THEN "out" ELSE "own",
              outRate |-> MaxRate, inRate |-> MaxRate, armed |-> FALSE, enabled |-> FALSE])
=============================================================================
