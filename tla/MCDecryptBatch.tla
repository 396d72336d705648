--------------------------- MODULE MCDecryptBatch ---------------------------
EXTENDS DecryptBatch

\* The cipher of a key changes in every way around a batch.
Ciphers ==
  [pids |-> {1, 2}, keys |-> {1}, modes |-> {"csa", "des", "aes"},
   kinds |-> {"descr", "descr_aes", "mode", "data"}, cluster |-> 3, max |-> 2]

\* AES comes and goes while a longer batch is collected.
AesBetween ==
  [pids |-> {1, 2}, keys |-> {1}, modes |-> {"csa"}, kinds |-> {"descr", "descr_aes"},
   cluster |-> 3, max |-> 3]

\* Packets of two keys side by side.
TwoKeys ==
  [pids |-> {1, 2}, keys |-> {1, 2}, modes |-> {"csa"}, kinds |-> {},
   cluster |-> 2, max |-> 3]

MCSetups == {Ciphers, AesBetween, TwoKeys}
=============================================================================
