----------------------------- MODULE MCSecretStage -----------------------------
EXTENDS SecretStage
================================================================================
