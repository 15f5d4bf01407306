--------------------------- MODULE MCQuel3Planning ---------------------------
(* Two control aliases and two that read out through one receiver. *)
EXTENDS Quel3Planning, TLC

CONSTANTS ctl, rd1, rd2, rx, rxc, near, far

MCReceiverOf == (ctl :> rxc) @@ (rd1 :> rx) @@ (rd2 :> rx)

Job(n, mode, dur, grid, interval, freq, wave, caps) ==
    [n |-> n, mode |-> mode, dur |-> dur, grid |-> grid, interval |-> interval,
     settings |-> near, freq |-> freq, wave |-> wave, caps |-> caps,
     period |-> IF \A a \in DOMAIN caps : caps[a] = <<>> THEN "none" ELSE "2ns"]

\* Readout of one alias; of one alias twice; of two aliases on one receiver;
\* on a coarser grid; a job without captures; one on another frequency, and
\* one with other settings.
Base(n, mode) ==
    LET read == Job(n, mode, 3, 2, 1, rd1 :> 6, rd1 :> 2, rd1 :> <<2>>)
    IN {read,
        Job(n, mode, 5, 2, 1, rd1 :> 6, rd1 :> 1, rd1 :> <<1, 2>>),
        Job(n, mode, 4, 3, 1, (rd1 :> 6) @@ (rd2 :> 7), (rd1 :> 1) @@ (rd2 :> 1),
            (rd1 :> <<1>>) @@ (rd2 :> <<2>>)),
        [read EXCEPT !.freq = rd1 :> 5]}

MCPayloads ==
    Base(5, "raw") \cup Base(3, "averagedWaveform")
    \cup {p \in Base(3, "perShot") : rd2 \in DOMAIN p.freq}
    \cup {p \in Base(1, "averagedValue") : rd2 \in DOMAIN p.freq}
    \cup {Job(5, "raw", 3, 1, 1, ctl :> 5, ctl :> 3, ctl :> <<>>),
          [Job(5, "raw", 3, 2, 1, rd1 :> 6, rd1 :> 2, rd1 :> <<2>>) EXCEPT !.settings = far]}

Limits(merge, waveform, capture, returned, duration) ==
    [merge |-> merge, waveform |-> waveform, capture |-> capture,
     returned |-> returned, duration |-> duration]

\* Each limit in turn, and none, is the one that binds; a waveform limit of 2
\* refuses the job on ctl.
MCOptionSets ==
    {Limits(TRUE, 6, 100, 100, 200), Limits(TRUE, 2, 100, 100, 200), Limits(TRUE, 6, 8, 100, 200),
     Limits(TRUE, 6, 100, 7, 200), Limits(TRUE, 6, 100, 100, 17), Limits(FALSE, 6, 8, 7, 17)}
==============================================================================
