------------------------------- MODULE MCWire -------------------------------
(* The wire crate: its stream of frames, and the algorithms on what the frames
   carry. The two share no state, so an algorithm is tried where the stream
   has not begun, and never again.

   Bytes of two bits for hashes and of three for the coinbase, and messages
   whose fields are filled with section tags, zeros and terminators. The
   stream's frames are a boxed one longer than a header, a plaintext one
   without payload, and one the session ends on. *)
EXTENDS Wire, Frames, TLC

CONSTANTS mining, info, hello

MCMsgs == {mining, info, hello}
MCLenOf == (mining :> 3) @@ (info :> 0) @@ (hello :> 1)

Block(n, b) == [i \in 1..n |-> b]

Fills == {0, 1, 2, 254}

ShareOf(b, name, seal, job, coinbase) ==
    [head |-> Block(HEAD, b), extranonce |-> Block(EXTRANONCE, b),
     username |-> name, reserved |-> Block(RESERVED, b),
     blake2b |-> Block(IF seal > 0 THEN 1 ELSE 0, Block(SEAL, b)),
     time |-> Block(IF seal > 1 THEN 1 ELSE 0, Block(TIME, b)),
     job |-> job, coinbase |-> coinbase]

Jobs(b) == {<< >>} \cup {<<[head |-> Block(JOB, b), branches |-> Block(n, Block(HASH, b))]>>
                           : n \in 0..2}

Coinbases(b) == {<< >>} \cup {<<[id |-> b, coinb1 |-> Block(n, b), coinb2 |-> Block(k, b)]>>
                                : n \in 0..1, k \in 0..1}

MCShares == UNION {{ShareOf(b, name, seal, job, cb) :
                      name \in {<< >>, <<1>>, <<2, 1>>, <<3, 4>>}, seal \in 0..2,
                      job \in Jobs(b), cb \in Coinbases(b)} : b \in Fills}

MCPads == {<< >>, <<1>>, <<85, 254, 2>>}
MCReplies == {<< >>, << <<1>> >>, << <<254, 0>>, << >> >>, << <<2>>, <<145, 3>>, <<0>> >>}
MCScripts == {<<1, 2>>, <<1, 2, 3>>}
MCTxouts == {Block(n, [value |-> 9, script |-> Block(k, 6)]) : n \in {1, 4, 5, 6}, k \in {0, 4, 5, 7}}
MCVarints == (0..70) \cup {4095, 4096, 4097, 100000}
MCWitness == <<1, 4, 0, 0, 0, 0>>

WireInit == Init /\ StreamInit

WireNext ==
    \/ StreamInit /\ Next /\ UNCHANGED streamVars
    \/ input = NoInput /\ StreamNext /\ UNCHANGED input

WireSpec ==
    /\ WireInit /\ [][WireNext]_<<input, streamVars>>
    /\ StreamFairness
=============================================================================
