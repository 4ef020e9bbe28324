------------------------------- MODULE MCNv2a -------------------------------
(* A program with a context switch, a trap, a flip that must wait for the  *)
(* display and a semaphore, under drivers that differ in their set-up.     *)
EXTENDS Nv2a

MCRamht == [h \in {1, 2} |-> 10 * h]
MCChannelOf == [i \in {10, 20} |-> IF i = 10 THEN 1 ELSE 0]

Command(m, n) == [op |-> "inc", method |-> m, subchannel |-> 0, count |-> n, value |-> 0]
Data(v) == [op |-> "data", value |-> v]
M(m, v) == [method |-> m, subchannel |-> 0, parameter |-> v]
Bit(r) == [reg |-> r, val |-> TRUE]

MCWords == <<Command(0, 1), Data(1), Command(288, 5), Data(0), Data(1), Data(2), Data(0), Data(0),
             Command(256, 1), Data(5), Command(0, 1), Data(2), Command(7536, 1), Data(3)>>

MCPrograms ==
    [frame |->
       [words  |-> [a \in 0 .. DmaLen - 1 |-> MCWords[a + 1]],
        writes |-> <<Bit("PUSH0"), Bit("DMA_PUSH"), Bit("PULL0"), [reg |-> "DMA_PUT", val |-> DmaLen]>>,
        setup  |-> 3,
        expect |-> <<M(0, 10), M(288, 0), M(292, 1), M(296, 2), M(300, 0), M(304, 0), M(256, 5),
                     M(0, 20), M(7536, 3)>>,
        ends   |-> "NONE"]]

MCDoorbells == [i \in 1 .. 4 |-> [reg |-> "PFIFO"]]
MCEnable == <<On("PMC_INTR_EN", TRUE), On("PCRTC_INTR_EN", TRUE),
              On("PGRAPH_INTR_EN", {"ERROR", "CONTEXT_SWITCH"}), On("PGRAPH_FIFO", TRUE)>>
MCScripts == {MCEnable \o MCDoorbells, MCDoorbells \o MCEnable}
=============================================================================
