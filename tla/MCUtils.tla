-------------------------------- MODULE MCUtils --------------------------------
\* The data structures of utils, the formats of packets and the options, side by side: every
\* behaviour is one of a single unit, the others keep their initial state.
EXTENDS Conversions, RingBuffer, FifoQueues, LinkedDeque, TimingWheel

CONSTANTS Base, LengthBytes, MaxPacketSize, MsgTypes, MsgIDs, PartSizes, MsgBodies,
          OptionValues, Withs, Fails

VARIABLES unit, router, opts, withs, checks

Packets == INSTANCE Packets
Options == INSTANCE Options

containerVars == <<ringVars, fifoVars, dequeVars>>
optVars == <<opts, withs, checks>>
utilsVars == <<unit, convVars, containerVars, wheelVars, router, optVars>>

MCConvValues == {-(2^15), -129, -8, -1, 0, 3, 65, 8193, 65535}
MCOptionValues == {-1, 0, 1, 400, 600, 2000, 4000, 40000}
MCPartSizes == <<2>>
MCMsgBodies == {<<>>, <<1>>, <<0, 1>>, <<1, 1, 1>>, <<1, 0, 1, 1>>}

MCInit ==
    /\ unit \in {"conv", "ring", "fifo", "deque", "wheel", "packets", "options"}
    /\ ConvInit /\ RingInit /\ FifoInit /\ DequeInit /\ WheelInit
    /\ Packets!PacketsInit /\ Options!OptionsInit
    /\ unit = "options" \/ opts = Options!DefaultOptions

MCNext ==
    \/ unit = "conv" /\ ConvNext /\ UNCHANGED <<unit, containerVars, wheelVars, router, optVars>>
    \/ /\ \/ unit = "ring" /\ RingNext /\ UNCHANGED <<fifoVars, dequeVars>>
          \/ unit = "fifo" /\ FifoNext /\ UNCHANGED <<ringVars, dequeVars>>
          \/ unit = "deque" /\ DequeNext /\ UNCHANGED <<ringVars, fifoVars>>
       /\ UNCHANGED <<unit, convVars, wheelVars, router, optVars>>
    \/ unit = "wheel" /\ WheelNext /\ UNCHANGED <<unit, convVars, containerVars, router, optVars>>
    \/ /\ unit = "packets" /\ Packets!PacketsNext
       /\ UNCHANGED <<unit, convVars, containerVars, wheelVars, optVars>>
    \/ /\ unit = "options" /\ Options!OptionsNext
       /\ UNCHANGED <<unit, convVars, containerVars, wheelVars, router>>

\* Only the wheel has threads to be fair to, and a property that needs it.
MCSpec == MCInit /\ [][MCNext]_utilsVars /\ WheelFairness

\* Every container is the abstract one it stands for.
ContainersHold == RingIsQueue /\ QueuesAreFifo /\ DequeIsList
\* A value that is converted, sent in a packet or given as an option is the one that was meant.
ValuesHold == ConvLossless /\ Packets!PacketsRoundTrip /\ Options!OptionsHold
=============================================================================
