--------------------------- MODULE MCBackendConfig ---------------------------
EXTENDS BackendConfig, TLC

CONSTANTS openai, mistral, m1, m2, k1, k2

FirstModels == openai :> m1 @@ mistral :> m1
=============================================================================
