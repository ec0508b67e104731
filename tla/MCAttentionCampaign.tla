------------------------ MODULE MCAttentionCampaign ------------------------
(* Five families of one sample, the smallest design with three partitions.  *)
EXTENDS AttentionCampaign
=============================================================================
